---- MODULE Spec2Model ----
(***************************************************************************)
(* Trip-notification pipeline of the UIUC MTD assistant: the transit       *)
(* proxies (cache + rate limiter), the schedule-notify cron function and   *)
(* the fanout-push function, as state machines over one wall clock.        *)
(* All times are milliseconds, as Date.now() gives them.                   *)
(***************************************************************************)
EXTENDS Integers, Sequences, FiniteSets, TLC

VARIABLES
    clock,              \* Date.now() / new Date() / the database's NOW()
    fn,                 \* which edge function the proxy process runs
    cache,              \* the process's cache map, by cache key
    rateLimitTracker,   \* the process's rateLimitTracker map, by rate-limit key
    lastResp,           \* the response of the proxy request handled last
    lastUpstream,       \* by rate-limit key: when the upstream API was last called
    upstreamUrl,        \* the parameters of the planner's last upstream call
    trip_plans,         \* table trip_plans, in insertion order (the row's index is its id)
    notifications,      \* table notifications, in insertion order
    push_tokens,        \* table push_tokens: each user's registered device tokens
    sched,              \* the schedule-notify invocations
    fan,                \* the fanout-push invocations
    pushed,             \* by notification id: how often it was submitted to Expo
    call,               \* the last call of a helper function: its arguments and result
    client              \* the mobile client's vehicle tracker and vehicle markers

proxyVars == <<fn, cache, rateLimitTracker, lastResp, lastUpstream, upstreamUrl>>
dbVars == <<trip_plans, notifications, push_tokens>>
vars == <<clock, proxyVars, dbVars, sched, fan, pushed, call, client>>

-----------------------------------------------------------------------------
(* Bounds of the model *)

\* the proxy specification stops the clock this many ms after its start
MaxProxyClock == 90000
\* the pipeline specifications stop the clock this many minutes after their start
MaxElapsedMinutes == 1
\* invocations of schedule-notify and of fanout-push in one behaviour
MaxSchedRuns == 2
MaxFanRuns == 2
\* the runs of updateVehicles a client makes
MaxCycles == 2
\* the minutes over which the cron job invokes schedule-notify, once each
MaxTicks == 7
\* the minutes after 08:00 over which the steady specification runs the cron job
MaxSteadyMinutes == 35
\* the minutes the evening specification lets pass after 21:58
MaxEveningMinutes == 3

-----------------------------------------------------------------------------
(* Program constants *)

DEP_CACHE_TTL == 60 * 1000
PLAN_CACHE_TTL == 75 * 1000
RATE_LIMIT_WINDOW == 60 * 1000
MAX_REQUESTS_PER_WINDOW == 1
FALLBACK_TRIP_MS == 15 * 60 * 1000

\* an absent value (undefined, null, no row) and a present one
None == <<>>
Some(x) == <<x>>
The(o) == o[1]

MinuteMs == 60 * 1000
\* a wall-clock time of day 0, in ms
At(h, m) == (h * 60 + m) * MinuteMs

\* stop ids asked of the departures proxy
Stops == {"IU"}
\* (origin, destination) pairs and arrival times asked of the planner proxy
Pairs == {<<"home", "hall">>}
ArriveBys == {At(9, 0), At(22, 45)}
\* what the upstream departures API can answer with (the body of a 200)
DepPayloads == {"depsA", "depsB"}
\* the upstream's non-2xx answers: status and body text
UpstreamErrors == [status : {404, 500}, body : {"errA"}]
UpstreamAnswersOf(ok, payloads) == IF ok THEN payloads ELSE UpstreamErrors
\* route ids asked of the vehicles proxy and what the upstream answers with
Routes == {"22N"}
VehiclePayloads == {"vehsA", "vehsB"}
\* what the upstream planner can answer with (data.trips of a 200)
Trip(startTime, endTime) == [startTime |-> startTime, endTime |-> endTime]
UpstreamTrips ==
    {<<>>, <<Trip(At(8, 30), At(8, 50))>>, <<Trip(At(8, 35), At(8, 55))>>}

\* Math.ceil(x / 1000)
CeilSec(x) == IF x >= 0 THEN (x + 999) \div 1000 ELSE -((-x) \div 1000)
\* Math.round(x / 1000), x >= 0
RoundSec(x) == (x + 500) \div 1000

RECURSIVE FilterSeq(_, _, _)
FilterSeq(s, now, window) ==
    IF s = <<>> THEN <<>>
    ELSE IF now - Head(s) < window
         THEN <<Head(s)>> \o FilterSeq(Tail(s), now, window)
         ELSE FilterSeq(Tail(s), now, window)

\* requestTimes.filter(time => now - time < RATE_LIMIT_WINDOW), with <= : a
\* request exactly one window old still counts
ValidRequestsInclusive(requestTimes, now) ==
    FilterSeq(requestTimes, now, RATE_LIMIT_WINDOW + 1)

\* requestTimes.filter(time => now - time < RATE_LIMIT_WINDOW)
ValidRequests(requestTimes, now) ==
    FilterSeq(requestTimes, now, RATE_LIMIT_WINDOW)

\* validRequests.length >= MAX_REQUESTS_PER_WINDOW
RateLimited(validRequests) == Len(validRequests) >= MAX_REQUESTS_PER_WINDOW

\* Math.ceil((validRequests[0] + RATE_LIMIT_WINDOW - now) / 1000)
RetryAfter(validRequests, now) ==
    CeilSec(validRequests[1] + RATE_LIMIT_WINDOW - now)

\* cached && (now - cached.timestamp) < CACHE_TTL
CacheFresh(cached, now, ttl) ==
    cached # None /\ now - The(cached).timestamp < ttl

\* error: what an error response tells of a failed upstream call, its status
\* and its body
Resp(kind, key, status, cached, data, retryAfter, cacheAge, upstream, error) ==
    [kind |-> kind, key |-> key, status |-> status, cached |-> cached,
     data |-> data, retryAfter |-> retryAfter, cacheAge |-> cacheAge,
     upstream |-> upstream, error |-> error]


-----------------------------------------------------------------------------
(* Departures proxy: part_003, serve *)

\* One request for `stopId` handled at time `now`; `ok` and `payload` are the
\* upstream's answer should the handler reach the fetch: the body of a 200,
\* or the status and body of a non-2xx answer. The result is the
\* response together with the new cache and tracker entries of the key.
DeparturesHandle(stopId, now, cached, requestTimes, ok, payload) ==
    LET validRequests == ValidRequests(requestTimes, now) IN
    IF RateLimited(validRequests)
    THEN [resp |-> Resp("departures", stopId, 429, FALSE, None,
                        Some(RetryAfter(validRequests, now)), None, FALSE, None),
          cached |-> cached, requestTimes |-> requestTimes]
    ELSE IF CacheFresh(cached, now, DEP_CACHE_TTL)
    THEN [resp |-> Resp("departures", stopId, 200, TRUE, Some(The(cached).data),
                        None, Some(RoundSec(now - The(cached).timestamp)), FALSE, None),
          cached |-> cached, requestTimes |-> requestTimes]
    ELSE IF ~ok
    THEN [resp |-> Resp("departures", stopId, payload.status, FALSE, None, None,
                        None, TRUE,
                        Some([status |-> Some(payload.status),
                              details |-> Some(payload.body)])),
          cached |-> cached, requestTimes |-> requestTimes]
    ELSE [resp |-> Resp("departures", stopId, 200, FALSE, Some(payload), None, None,
                        TRUE, None),
          cached |-> Some([data |-> payload, timestamp |-> now]),
          requestTimes |-> Append(validRequests, now)]

DeparturesRequest(stopId, ok, payload) ==
    LET h == DeparturesHandle(stopId, clock, cache[stopId],
                              rateLimitTracker[stopId], ok, payload) IN
    /\ fn = "departures"
    /\ cache' = [cache EXCEPT ![stopId] = h.cached]
    /\ rateLimitTracker' = [rateLimitTracker EXCEPT ![stopId] = h.requestTimes]
    /\ lastResp' = h.resp
    /\ lastUpstream' =
         IF h.resp.upstream
         THEN [lastUpstream EXCEPT ![stopId] = Some(clock)]
         ELSE lastUpstream
    /\ UNCHANGED <<client, call, clock, fn, upstreamUrl, dbVars, sched, fan, pushed>>

-----------------------------------------------------------------------------
(* Vehicles proxy: part_011, serve *)

\* serve, lines 95-107: { error: `CUMTD API error: ${response.status}` }
VehiclesError(payload) ==
    [status |-> Some(payload.status), details |-> None]

\* serve, lines 91-139: no cache and no rate limiter, every request is fetched
VehiclesHandle(routeId, ok, payload) ==
    IF ~ok
    THEN Resp("vehicles", routeId, payload.status, FALSE, None, None, None, TRUE,
              Some(VehiclesError(payload)))
    ELSE Resp("vehicles", routeId, 200, FALSE, Some(payload), None, None, TRUE, None)

VehiclesRequest(routeId, ok, payload) ==
    /\ fn = "vehicles"
    /\ lastResp' = VehiclesHandle(routeId, ok, payload)
    /\ UNCHANGED <<client, call, clock, fn, cache, rateLimitTracker, lastUpstream,
                   upstreamUrl, dbVars, sched, fan, pushed>>

-----------------------------------------------------------------------------
(* Planner proxy: transit-planner/index.ts *)

\* A request body: the handler reads arrive_by for the cache key and
\* arriveBy for the upstream URL and the fallback.
PlanReq(pair, arrive_by, arriveBy) ==
    [pair |-> pair, arrive_by |-> arrive_by, arriveBy |-> arriveBy]

\* rateLimitKey = `planner:${origin}:${destination}`
PlanRateKey(req) == req.pair

\* cacheKey = `planner:${origin}:${destination}:${arrive_by || depart_at || 'now'}`
PlanCacheKey(req) ==
    <<req.pair, req.arrive_by>>

PlanCacheKeys == Pairs \X ({Some(a) : a \in ArriveBys} \cup {None})

\* attemptFallbackTripPlanning: the two departures fetches, then one
\* synthesized bus trip ending at arriveBy (or at the current time).
FallbackData(req, now, originOk, destOk) ==
    IF ~originOk \/ ~destOk
    THEN [status |-> 500, success |-> FALSE, trips |-> <<>>, fallback |-> TRUE]
    ELSE LET arriveByTime == IF req.arriveBy # None THEN The(req.arriveBy) ELSE now
             departureTime == arriveByTime - FALLBACK_TRIP_MS
         IN [status |-> 200, success |-> TRUE,
             trips |-> <<Trip(departureTime, arriveByTime)>>, fallback |-> TRUE]

\* up: the upstream's answers, [ok, trips, originOk, destOk]
PlannerHandle(req, now, cached, requestTimes, up) ==
    LET validRequests == ValidRequests(requestTimes, now) IN
    IF RateLimited(validRequests)
    THEN [resp |-> Resp("planner", req, 429, FALSE, None,
                        Some(RetryAfter(validRequests, now)), None, FALSE, None),
          cached |-> cached, requestTimes |-> requestTimes]
    ELSE IF CacheFresh(cached, now, PLAN_CACHE_TTL)
    THEN [resp |-> Resp("planner", req, 200, TRUE, Some(The(cached).data),
                        None, Some(RoundSec(now - The(cached).timestamp)), FALSE, None),
          cached |-> cached, requestTimes |-> requestTimes]
    ELSE IF ~up.ok
    THEN LET fb == FallbackData(req, now, up.originOk, up.destOk) IN
         [resp |-> Resp("planner", req, fb.status, FALSE,
                        Some([success |-> fb.success, trips |-> fb.trips,
                              fallback |-> TRUE]),
                        None, None, TRUE, None),
          cached |-> cached, requestTimes |-> requestTimes]
    ELSE LET responseData == [success |-> TRUE, trips |-> up.trips,
                              fallback |-> FALSE] IN
         [resp |-> Resp("planner", req, 200, FALSE, Some(responseData), None, None,
                        TRUE, None),
          cached |-> Some([data |-> responseData, timestamp |-> now]),
          requestTimes |-> Append(validRequests, now)]

UpstreamAnswers ==
    [ok : {TRUE}, trips : UpstreamTrips, originOk : {TRUE}, destOk : {TRUE}]
    \cup [ok : {FALSE}, trips : {<<>>}, originOk : BOOLEAN, destOk : BOOLEAN]

\* serve, lines 408-422: the getplannedtripsbystops URL; date and time (HH:MM)
\* with arrive_depart=arrive are added only when requestData.arriveBy is set
CumtdUrl(req) ==
    [origin_stop_id |-> req.pair[1], destination_stop_id |-> req.pair[2],
     arrive |-> IF req.arriveBy # None
                THEN Some((The(req.arriveBy) \div MinuteMs) * MinuteMs)
                ELSE None]

\* the effect of one planner request on the proxy's state
PlannerApply(req, up) ==
    LET h == PlannerHandle(req, clock, cache[PlanCacheKey(req)],
                           rateLimitTracker[PlanRateKey(req)], up) IN
    /\ fn = "planner"
    /\ cache' = [cache EXCEPT ![PlanCacheKey(req)] = h.cached]
    /\ rateLimitTracker' = [rateLimitTracker EXCEPT ![PlanRateKey(req)] = h.requestTimes]
    /\ lastResp' = h.resp
    /\ lastUpstream' =
         IF h.resp.upstream
         THEN [lastUpstream EXCEPT ![PlanRateKey(req)] = Some(clock)]
         ELSE lastUpstream
    /\ upstreamUrl' = IF h.resp.upstream THEN Some(CumtdUrl(req)) ELSE upstreamUrl
    /\ UNCHANGED fn

PlannerRequest(req, up) ==
    /\ PlannerApply(req, up)
    /\ UNCHANGED <<client, call, clock, dbVars, sched, fan, pushed>>

\* the requests clients send: the scheduler and transit.ts post arrive_by,
\* planTrip of part_007 sends it in the query string of a GET, and
\* transitApi.ts posts arriveBy
PlanRequests ==
    {PlanReq(p, Some(a), None) : p \in Pairs, a \in ArriveBys}
    \cup {PlanReq(p, None, Some(a)) : p \in Pairs, a \in ArriveBys}

-----------------------------------------------------------------------------
(* The database the edge functions share *)

\* the accounts, and those with a user_settings row where invocations overlap
Accounts == {"u1", "u2"}
Users == {"u1"}
Devices == {"d1"}
\* invocations are numbered in the order in which they start
SchedIds == 1..MaxSchedRuns
FanIds == 1..MaxFanRuns

\* user_settings rows, with the values setHomePoint writes
UserSettings(u) ==
    [user_id |-> u, home_point |-> Some("home"), notify_lead_minutes |-> 15,
     quiet_hours_start |-> <<22, 0, 0>>, quiet_hours_end |-> <<8, 0, 0>>]

\* events rows
Events ==
    {[id |-> 1, user_id |-> "u1", start_time |-> At(9, 0),
      destination_point |-> Some("hall")],
     [id |-> 2, user_id |-> "u2", start_time |-> At(9, 0),
      destination_point |-> Some("hall")],
     [id |-> 3, user_id |-> "u1", start_time |-> At(22, 45),
      destination_point |-> Some("hall")]}

EventById(id) == CHOOSE e \in Events : e.id = id

\* the origin and destination strings createTripPlan posts
PairOf(userSettings, event) ==
    <<IF userSettings.home_point # None THEN The(userSettings.home_point) ELSE "uiuc",
      IF event.destination_point # None THEN The(event.destination_point) ELSE "uiuc">>

RECURSIVE SeqOfSet(_)
\* the elements of a set of rows (or ids), in an order the caller then sorts
SeqOfSet(S) ==
    IF S = {} THEN <<>>
    ELSE LET x == CHOOSE y \in S : TRUE IN <<x>> \o SeqOfSet(S \ {x})

\* the rows of S in ascending order of key; ties broken by tie (the row id);
\* key and tie are functions on S. The row at position i is the one that
\* i - 1 rows come before
SortBy(S, key, tie) ==
    [i \in 1..Cardinality(S) |->
        CHOOSE x \in S :
            Cardinality({z \in S : key[z] < key[x]
                                    \/ (key[z] = key[x] /\ tie[z] < tie[x])}) = i - 1]

\* the first n elements of a sequence (.limit(n))
Limit(s, n) == IF Len(s) <= n THEN s ELSE SubSeq(s, 1, n)

PlanIds == DOMAIN trip_plans
NotificationIds == DOMAIN notifications

-----------------------------------------------------------------------------
(* schedule-notify: part_012 *)

LOOK_AHEAD_START_MIN == 30
LOOK_AHEAD_END_MIN == 60
RECENT_PLAN_MIN == 5
NOTIFY_TOLERANCE_MIN == 2

\* Time strings ("22:00", "22:00:00") are held as the sequence of their
\* zero-padded fields, <<22, 0>> and <<22, 0, 0>>; JavaScript compares strings
\* character by character, a proper prefix being the smaller string
RECURSIVE StrLess(_, _)
StrLess(a, b) ==
    IF b = <<>> THEN FALSE
    ELSE IF a = <<>> THEN TRUE
    ELSE IF a[1] # b[1] THEN a[1] < b[1]
    ELSE StrLess(Tail(a), Tail(b))

\* now.toTimeString().substring(0, 5): "HH:MM" of the server's day
TimeOfDay(now) == <<(now \div (60 * MinuteMs)) % 24, (now \div MinuteMs) % 60>>

\* isInQuietHours without the branch for a window that crosses midnight
IsInQuietHoursNoWrap(now, startTime, endTime) ==
    LET currentTime == TimeOfDay(now) IN
    ~StrLess(currentTime, startTime) /\ ~StrLess(endTime, currentTime)

\* isInQuietHours
IsInQuietHours(now, startTime, endTime) ==
    LET currentTime == TimeOfDay(now) IN
    IF StrLess(endTime, startTime)
    THEN ~StrLess(currentTime, startTime) \/ ~StrLess(endTime, currentTime)
    ELSE ~StrLess(currentTime, startTime) /\ ~StrLess(endTime, currentTime)

\* the events query without its lower bound on start_time
EventsUpToWindowEnd(u, now) ==
    {e \in Events :
        /\ e.user_id = u
        /\ e.start_time <= now + LOOK_AHEAD_END_MIN * MinuteMs}

\* the events query: the user's events that start in the look-ahead window
EventsInWindow(u, now) ==
    {e \in Events :
        /\ e.user_id = u
        /\ e.start_time >= now + LOOK_AHEAD_START_MIN * MinuteMs
        /\ e.start_time <= now + LOOK_AHEAD_END_MIN * MinuteMs}

EventStart == [e \in Events |-> e.start_time]
EventTie == [e \in Events |-> e.id]

\* events[0] after .order('start_time', { ascending: true })
NextEvent(u, now) == SortBy(EventsInWindow(u, now), EventStart, EventTie)[1]

\* the existing-plan query with the five minutes of look-back left out
RecentPlansSinceNow(u, eventId, now) ==
    {id \in PlanIds :
        /\ trip_plans[id].user_id = u
        /\ trip_plans[id].event_id = eventId
        /\ trip_plans[id].created_at >= now}

\* the existing-plan query: the pair's plans created in the last 5 minutes
RecentPlans(u, eventId, now) ==
    {id \in PlanIds :
        /\ trip_plans[id].user_id = u
        /\ trip_plans[id].event_id = eventId
        /\ trip_plans[id].created_at >= now - RECENT_PLAN_MIN * MinuteMs}

\* shouldSendNotification, evaluated at time `at`
ShouldSendNotification(userSettings, plan, at) ==
    LET leadTime == userSettings.notify_lead_minutes * MinuteMs
        notificationTime == plan.departure_time - leadTime
        timeUntilNotification == notificationTime - at
    IN /\ timeUntilNotification <= NOTIFY_TOLERANCE_MIN * MinuteMs
       /\ timeUntilNotification >= -(NOTIFY_TOLERANCE_MIN * MinuteMs)

IdleSched ==
    [pc |-> "idle", now |-> 0, todo |-> <<>>, event |-> None, trip |-> None,
     plan |-> None, fan |-> None, processed |-> 0, notified |-> 0,
     errors |-> 0]

Running(i) == sched[i].pc \notin {"idle", "done"}

\* the loop moves on to the next user (or the run ends); counted tells
\* whether processedCount++ was reached, notifiedInc whether
\* notificationCount++, error whether an error was logged for the user
ContinueWith(i, counted, notifiedInc, error) ==
    LET s == sched[i]
        rest == Tail(s.todo)
    IN sched' = [sched EXCEPT ![i] =
            [s EXCEPT !.pc = IF rest = <<>> THEN "done" ELSE "user",
                      !.todo = rest, !.event = None, !.trip = None,
                      !.plan = None, !.fan = None,
                      !.processed = @ + (IF counted THEN 1 ELSE 0),
                      !.notified = @ + (IF notifiedInc THEN 1 ELSE 0),
                      !.errors = @ + (IF error THEN 1 ELSE 0)]]

Continue(i, counted, notifiedInc) == ContinueWith(i, counted, notifiedInc, FALSE)

\* serve, lines 56-104: the run reads the clock once and fetches the users,
\* which the query (without an order) returns in some order
StartSchedulerOver(i, users) ==
    /\ sched[i].pc = "idle"
    /\ \A j \in SchedIds : j < i => sched[j].pc # "idle"
    /\ \E order \in {q \in [1..Cardinality(users) -> users] :
                        \A a, b \in DOMAIN q : a # b => q[a] # q[b]} :
         sched' = [sched EXCEPT ![i] =
                     [IdleSched EXCEPT !.pc = "user", !.now = clock, !.todo = order]]
    /\ UNCHANGED <<client, call, clock, proxyVars, dbVars, fan, pushed>>

StartScheduler(i) == StartSchedulerOver(i, Users)

\* serve, lines 106-139: quiet hours, then the events query
QueryEvents(i) ==
    LET s == sched[i]
        u == Head(s.todo)
        us == UserSettings(u)
    IN /\ s.pc = "user"
       /\ IF IsInQuietHours(s.now, us.quiet_hours_start, us.quiet_hours_end)
          THEN Continue(i, FALSE, FALSE)
          ELSE IF EventsInWindow(u, s.now) = {}
          THEN Continue(i, FALSE, FALSE)
          ELSE sched' = [sched EXCEPT ![i].pc = "queryPlan",
                                      ![i].event = Some(NextEvent(u, s.now).id)]
       /\ UNCHANGED <<client, call, clock, proxyVars, dbVars, fan, pushed>>

\* serve, lines 141-187: the existing-plan query; an existing plan is returned
\* unchanged by updateTripPlanIfNeeded, so nothing more is done for the user
QueryPlan(i) ==
    LET s == sched[i]
        u == Head(s.todo)
    IN /\ s.pc = "queryPlan"
       /\ IF RecentPlans(u, The(s.event), s.now) # {}
          THEN Continue(i, TRUE, FALSE)
          ELSE sched' = [sched EXCEPT ![i].pc = "planner"]
       /\ UNCHANGED <<client, call, clock, proxyVars, dbVars, fan, pushed>>

\* createTripPlan, lines 240-276: the call of the transit-planner function
CallPlanner(i, up) ==
    LET s == sched[i]
        u == Head(s.todo)
        event == EventById(The(s.event))
        req == PlanReq(PairOf(UserSettings(u), event), Some(event.start_time), None)
        h == PlannerHandle(req, clock, cache[PlanCacheKey(req)],
                           rateLimitTracker[PlanRateKey(req)], up)
        plannerData == The(h.resp.data)
    IN /\ s.pc = "planner"
       /\ PlannerApply(req, up)
       /\ IF h.resp.status # 200
          THEN ContinueWith(i, TRUE, FALSE, TRUE)
          ELSE IF ~plannerData.success \/ Len(plannerData.trips) = 0
          THEN Continue(i, TRUE, FALSE)
          ELSE sched' = [sched EXCEPT ![i].pc = "insertPlan",
                                      ![i].trip = Some(plannerData.trips[1])]
       /\ UNCHANGED <<client, call, clock, dbVars, fan, pushed>>

\* createTripPlan, lines 278-302, then shouldSendNotification (serve, 162-167)
InsertPlan(i) ==
    LET s == sched[i]
        u == Head(s.todo)
        bestTrip == The(s.trip)
        row == [user_id |-> u, event_id |-> The(s.event),
                departure_time |-> bestTrip.startTime,
                arrival_time |-> bestTrip.endTime, created_at |-> clock]
    IN /\ s.pc = "insertPlan"
       /\ trip_plans' = Append(trip_plans, row)
       /\ IF ShouldSendNotification(UserSettings(u), row, clock)
          THEN sched' = [sched EXCEPT ![i].pc = "tokens",
                                      ![i].plan = Some(Len(trip_plans) + 1)]
          ELSE Continue(i, TRUE, FALSE)
       /\ UNCHANGED <<client, call, clock, proxyVars, notifications, push_tokens, fan, pushed>>

\* enqueueNotification, lines 371-385: the push-token query
SchedQueryTokens(i) ==
    LET s == sched[i]
        u == Head(s.todo)
    IN /\ s.pc = "tokens"
       /\ IF push_tokens[u] = {}
          THEN Continue(i, TRUE, TRUE)
          ELSE sched' = [sched EXCEPT ![i].pc = "insertNotification"]
       /\ UNCHANGED <<client, call, clock, proxyVars, dbVars, fan, pushed>>

\* enqueueNotification, lines 387-408: the notification row
InsertNotification(i) ==
    LET s == sched[i]
        u == Head(s.todo)
        row == [user_id |-> u, trip_plan_id |-> The(s.plan), event_id |-> The(s.event),
                type |-> "departure_reminder", status |-> "pending",
                scheduled_for |-> clock, sent_at |-> None]
    IN /\ s.pc = "insertNotification"
       /\ notifications' = Append(notifications, row)
       /\ pushed' = Append(pushed, 0)
       /\ sched' = [sched EXCEPT ![i].pc = "callFanout"]
       /\ UNCHANGED <<client, call, clock, proxyVars, trip_plans, push_tokens, fan>>

\* serve, lines 116-127: the events query answers with an error
QueryEventsFails(i) ==
    LET s == sched[i]
        us == UserSettings(Head(s.todo))
    IN /\ s.pc = "user"
       /\ ~IsInQuietHours(s.now, us.quiet_hours_start, us.quiet_hours_end)
       /\ ContinueWith(i, FALSE, FALSE, TRUE)
       /\ UNCHANGED <<client, call, clock, proxyVars, dbVars, fan, pushed>>

\* serve, lines 141-155: the existing-plan query answers with an error
QueryPlanFails(i) ==
    /\ sched[i].pc = "queryPlan"
    /\ ContinueWith(i, FALSE, FALSE, TRUE)
    /\ UNCHANGED <<client, call, clock, proxyVars, dbVars, fan, pushed>>

\* createTripPlan, lines 297-300: the insert answers with saveError, null is
\* returned and serve goes on to processedCount++
InsertPlanFails(i) ==
    /\ sched[i].pc = "insertPlan"
    /\ ContinueWith(i, TRUE, FALSE, TRUE)
    /\ UNCHANGED <<client, call, clock, proxyVars, dbVars, fan, pushed>>

\* enqueueNotification, lines 376-379: the push-token query answers with an error
SchedQueryTokensFails(i) ==
    /\ sched[i].pc = "tokens"
    /\ ContinueWith(i, TRUE, TRUE, TRUE)
    /\ UNCHANGED <<client, call, clock, proxyVars, dbVars, fan, pushed>>

\* enqueueNotification, lines 403-406: the insert answers with notificationError
InsertNotificationFails(i) ==
    /\ sched[i].pc = "insertNotification"
    /\ ContinueWith(i, TRUE, TRUE, TRUE)
    /\ UNCHANGED <<client, call, clock, proxyVars, dbVars, fan, pushed>>

-----------------------------------------------------------------------------
(* fanout-push: fanout-push/index.ts *)

FANOUT_BATCH_LIMIT == 50

IdleFan ==
    [pc |-> "idle", caller |-> None, batch |-> <<>>, i |-> 1,
     processed |-> 0, sent |-> 0, failed |-> 0, tokens |-> {},
     expo |-> None, rejected |-> {}, accepted |-> {}]

\* r is the number of the next invocation
FreeFan(r) ==
    /\ fan[r].pc = "idle"
    /\ \A q \in FanIds : q < r => fan[q].pc # "idle"

ScheduledFor == [id \in NotificationIds |-> notifications[id].scheduled_for]
RowId == [id \in NotificationIds |-> id]

\* the ids of the rows that are pending and due
DueIds(rows, now) ==
    {id \in DOMAIN rows :
        /\ rows[id].status = "pending"
        /\ rows[id].scheduled_for <= now}

\* the pending-notifications query in row order, without .order(...)
PendingOfUnordered(rows, now) ==
    Limit(SortBy(DueIds(rows, now), [id \in DOMAIN rows |-> id],
                 [id \in DOMAIN rows |-> id]),
          FANOUT_BATCH_LIMIT)

\* serve, lines 71-78, on the rows of the table: pending, due, oldest first,
\* at most 50
PendingOf(rows, now) ==
    Limit(SortBy(DueIds(rows, now),
                 [id \in DOMAIN rows |-> rows[id].scheduled_for],
                 [id \in DOMAIN rows |-> id]),
          FANOUT_BATCH_LIMIT)

\* the pending-notifications query without the status filter
PendingNotificationsAnyStatus(now) ==
    Limit(SortBy({id \in NotificationIds : notifications[id].scheduled_for <= now},
                 ScheduledFor, RowId),
          FANOUT_BATCH_LIMIT)

\* serve, lines 71-78: pending, due, oldest first, at most 50
PendingNotifications(now) == PendingOf(notifications, now)

\* serve, lines 57-96: an invocation begins with the query
BeginFanout(r, caller) ==
    LET pendingNotifications == PendingNotifications(clock) IN
    fan' = [fan EXCEPT ![r] =
              [IdleFan EXCEPT !.pc = IF pendingNotifications = <<>>
                                     THEN "done" ELSE "tokens",
                              !.caller = caller,
                              !.batch = pendingNotifications]]

\* an invocation by the external trigger
StartFanout(r) ==
    /\ FreeFan(r)
    /\ BeginFanout(r, None)
    /\ UNCHANGED <<client, call, clock, proxyVars, dbVars, sched, pushed>>

\* a token query that never comes back empty
NoTokensNever(tokens) == FALSE

\* serve, line 120: !tokens || tokens.length === 0
NoTokens(tokens) == tokens = {}

\* serve, lines 107-125: the notification's user's push tokens
FanoutQueryTokens(r) ==
    LET f == fan[r]
        notification == notifications[f.batch[f.i]]
    IN /\ f.pc = "tokens"
       /\ fan' = [fan EXCEPT ![r].pc =
                    IF NoTokens(push_tokens[notification.user_id])
                    THEN "markFailedNoTokens" ELSE "send",
                                ![r].tokens = push_tokens[notification.user_id]]
       /\ UNCHANGED <<client, call, clock, proxyVars, dbVars, sched, pushed>>

\* sendExpoPushNotifications, lines 200-239: what the Expo call can bring back
\* for the messages of one notification (one per token): a non-2xx answer or
\* a thrown error (ok = FALSE), or one ticket per message
ExpoAnswers(nTokens) ==
    {[ok |-> FALSE, data |-> <<>>]} \cup
    {[ok |-> TRUE, data |-> d] : d \in [1..nTokens -> {"ok", "error"}]}

\* the same, trusting every 2xx answer without reading the tickets
ExpoSuccessIfHttpOk(answer) == answer.ok

\* sendExpoPushNotifications, lines 216-232: success needs a 2xx answer and
\* no ticket with status 'error'
ExpoSuccess(answer) ==
    /\ answer.ok
    /\ \A k \in DOMAIN answer.data : answer.data[k] # "error"

\* serve, lines 128-146: one batch call to Expo, a message for each token read
SendExpo(r, answer) ==
    LET f == fan[r] IN
    /\ f.pc = "send"
    /\ pushed' = [pushed EXCEPT ![f.batch[f.i]] = @ + 1]
    /\ fan' = [fan EXCEPT ![r].pc = IF ExpoSuccess(answer) THEN "markSent"
                                                            ELSE "markFailed",
                          ![r].expo = Some(answer),
                          ![r].accepted = IF ExpoSuccess(answer)
                                          THEN @ \cup {f.batch[f.i]} ELSE @]
    /\ UNCHANGED <<client, call, clock, proxyVars, dbVars, sched>>

\* markNotificationSent / markNotificationFailed: update ... .eq('id', id)
UpdateStatus(id, status) ==
    notifications' =
        [notifications EXCEPT ![id].status = status, ![id].sent_at = Some(clock)]

\* the same, with a failure ending the run
FanoutAdvanceOrAbort(r, processedInc, sentInc, failedInc) ==
    LET f == fan[r] IN
    fan' = [fan EXCEPT ![r] =
              [f EXCEPT !.pc = IF f.i = Len(f.batch) \/ failedInc > 0
                               THEN "done" ELSE "tokens",
                        !.i = IF f.i = Len(f.batch) \/ failedInc > 0
                              THEN f.i ELSE f.i + 1,
                        !.processed = @ + processedInc,
                        !.sent = @ + sentInc,
                        !.failed = @ + failedInc,
                        !.tokens = {},
                        !.expo = None]]

\* the loop moves on to the next notification (or the run ends)
FanoutAdvance(r, processedInc, sentInc, failedInc) ==
    LET f == fan[r] IN
    fan' = [fan EXCEPT ![r] =
              [f EXCEPT !.pc = IF f.i = Len(f.batch) THEN "done" ELSE "tokens",
                        !.i = IF f.i = Len(f.batch) THEN f.i ELSE f.i + 1,
                        !.processed = @ + processedInc,
                        !.sent = @ + sentInc,
                        !.failed = @ + failedInc,
                        !.tokens = {},
                        !.expo = None]]

\* serve, lines 120-125: no tokens, the notification is marked failed
MarkFailedNoTokens(r) ==
    LET f == fan[r] IN
    /\ f.pc = "markFailedNoTokens"
    /\ UpdateStatus(f.batch[f.i], "failed")
    /\ FanoutAdvance(r, 0, 0, 1)
    /\ UNCHANGED <<client, call, clock, proxyVars, trip_plans, push_tokens, sched, pushed>>

\* serve, lines 150-153
MarkSent(r) ==
    LET f == fan[r] IN
    /\ f.pc = "markSent"
    /\ UpdateStatus(f.batch[f.i], "sent")
    /\ FanoutAdvance(r, 1, 1, 0)
    /\ UNCHANGED <<client, call, clock, proxyVars, trip_plans, push_tokens, sched, pushed>>

\* serve, lines 154-158
MarkFailed(r) ==
    LET f == fan[r] IN
    /\ f.pc = "markFailed"
    /\ UpdateStatus(f.batch[f.i], "failed")
    /\ FanoutAdvance(r, 1, 0, 1)
    /\ UNCHANGED <<client, call, clock, proxyVars, trip_plans, push_tokens, sched, pushed>>

\* serve, lines 113-118: the push-token query answers with tokensError; the
\* notification is marked failed as it is without tokens
FanoutQueryTokensFails(r) ==
    /\ fan[r].pc = "tokens"
    /\ fan' = [fan EXCEPT ![r].pc = "markFailedNoTokens"]
    /\ UNCHANGED <<client, call, clock, proxyVars, dbVars, sched, pushed>>

\* what the run counts for the notification it is about to mark
MarkCounts(pc) ==
    IF pc = "markSent" THEN <<1, 1, 0>>
    ELSE IF pc = "markFailed" THEN <<1, 0, 1>> ELSE <<0, 0, 1>>

\* markNotificationSent / markNotificationFailed: the update answers with an
\* error, which is logged; the row keeps its status and the run counts as
\* it does after an update that went through
MarkRejected(r) ==
    LET f == fan[r]
        counts == MarkCounts(f.pc)
    IN /\ f.pc \in {"markFailedNoTokens", "markSent", "markFailed"}
       /\ fan' = [fan EXCEPT ![r] =
                    [f EXCEPT !.pc = IF f.i = Len(f.batch) THEN "done" ELSE "tokens",
                              !.i = IF f.i = Len(f.batch) THEN f.i ELSE f.i + 1,
                              !.processed = @ + counts[1],
                              !.sent = @ + counts[2],
                              !.failed = @ + counts[3],
                              !.tokens = {},
                              !.expo = None,
                              !.rejected = @ \cup {f.batch[f.i]}]]
       /\ UNCHANGED <<client, call, clock, proxyVars, dbVars, sched, pushed>>

\* enqueueNotification, lines 410-420: the scheduler invokes fanout-push
CallFanout(i) ==
    /\ sched[i].pc = "callFanout"
    /\ \E r \in FanIds :
         /\ FreeFan(r)
         /\ BeginFanout(r, Some(i))
         /\ sched' = [sched EXCEPT ![i].pc = "awaitFanout", ![i].fan = Some(r)]
    /\ UNCHANGED <<client, call, clock, proxyVars, dbVars, pushed>>

\* enqueueNotification, lines 428-430: the fetch of fanout-push throws; the
\* error is logged and the run goes on
CallFanoutFails(i) ==
    /\ sched[i].pc = "callFanout"
    /\ Continue(i, TRUE, TRUE)
    /\ UNCHANGED <<client, call, clock, proxyVars, dbVars, fan, pushed>>

\* enqueueNotification, lines 422-427, then serve, lines 169 and 189
AwaitFanout(i) ==
    LET r == The(sched[i].fan) IN
    /\ sched[i].pc = "awaitFanout"
    /\ fan[r].pc = "done"
    /\ Continue(i, TRUE, TRUE)
    /\ UNCHANGED <<client, call, clock, proxyVars, dbVars, fan, pushed>>

\* pushNotifications.ts, savePushToken: a device registers its token
RegisterToken(u, d) ==
    /\ d \notin push_tokens[u]
    /\ push_tokens' = [push_tokens EXCEPT ![u] = @ \cup {d}]
    /\ UNCHANGED <<client, call, clock, proxyVars, trip_plans, notifications, sched, fan, pushed>>

\* pushNotifications.ts, deletePushToken: a token row is deleted
DeletePushToken(u, d) ==
    /\ d \in push_tokens[u]
    /\ push_tokens' = [push_tokens EXCEPT ![u] = @ \ {d}]
    /\ UNCHANGED <<client, call, clock, proxyVars, trip_plans, notifications, sched, fan, pushed>>

\* no helper function called yet
NoCall == [fn |-> "none"]

\* no invocation yet, empty tables; the database accepts every write
PipelineInit ==
    /\ trip_plans = <<>>
    /\ notifications = <<>>
    /\ sched = [i \in SchedIds |-> IdleSched]
    /\ fan = [r \in FanIds |-> IdleFan]
    /\ pushed = <<>>
    /\ call = NoCall

-----------------------------------------------------------------------------
(* The mobile client: vehicleTracker.ts and LiveVehicleMarkers.tsx *)

\* the routes a user may follow and the vehicles that may serve them
ClientRoutes == {"22N", "5E"}
VehicleIds == {"bus1", "bus2"}

\* the tracker's fields, the component's vehicles map and whether its
\* handleVehicleUpdate is among updateCallbacks; cycle counts the runs of
\* updateVehicles and fetching holds the calls of fetchVehiclesForRoute that
\* await getVehiclesByRoute
IdleClient ==
    [followedRoutes |-> {}, isTracking |-> FALSE, updateCallbacks |-> FALSE,
     cycle |-> 0, fetching |-> {}, vehicles |-> <<>>]

\* getVehiclesByRoute's results: a failure, or the vehicles of the route
VehicleResults == [success : BOOLEAN, vehicles : SUBSET VehicleIds]

\* the calls fetchVehiclesForRoute(routeId) begun for routes in cycle c
Fetches(routes, c) == {[routeId |-> r, cycle |-> c] : r \in routes}

\* updateVehicles: one cycle over the followed routes
UpdateVehicles(c) ==
    IF ~c.isTracking \/ c.followedRoutes = {} THEN c
    ELSE [c EXCEPT !.cycle = @ + 1,
                   !.fetching = @ \cup Fetches(c.followedRoutes, c.cycle + 1)]

\* handleVehicleUpdate: the route's vehicles are removed, the update's are
\* set; each vehicle carries the cycle its update came from
HandleVehicleUpdate(prevVehicles, update) ==
    LET kept == {v \in DOMAIN prevVehicles :
                    prevVehicles[v].routeId # update.routeId}
    IN [v \in kept \cup update.vehicles |->
           IF v \in update.vehicles
           THEN [routeId |-> update.routeId, cycle |-> update.cycle]
           ELSE prevVehicles[v]]

\* the component's effect: addUpdateCallback, and startTracking unless the
\* tracker is tracking already
ShowMarkers ==
    /\ ~client.updateCallbacks
    /\ client.cycle < MaxCycles
    /\ client' = IF client.isTracking
                 THEN [client EXCEPT !.updateCallbacks = TRUE]
                 ELSE UpdateVehicles([client EXCEPT !.updateCallbacks = TRUE,
                                                    !.isTracking = TRUE])
    /\ UNCHANGED <<clock, proxyVars, dbVars, sched, fan, pushed, call>>

\* the effect's cleanup: removeUpdateCallback
HideMarkers ==
    /\ client.updateCallbacks
    /\ client' = [client EXCEPT !.updateCallbacks = FALSE]
    /\ UNCHANGED <<clock, proxyVars, dbVars, sched, fan, pushed, call>>

\* followRoute
FollowRoute(routeId) ==
    /\ routeId \notin client.followedRoutes
    /\ client' = [client EXCEPT
                     !.followedRoutes = @ \cup {routeId},
                     !.fetching = IF client.isTracking
                                  THEN @ \cup Fetches({routeId}, client.cycle)
                                  ELSE @]
    /\ UNCHANGED <<clock, proxyVars, dbVars, sched, fan, pushed, call>>

\* unfollowRoute
UnfollowRoute(routeId) ==
    /\ routeId \in client.followedRoutes
    /\ client' = [client EXCEPT !.followedRoutes = @ \ {routeId}]
    /\ UNCHANGED <<clock, proxyVars, dbVars, sched, fan, pushed, call>>

\* stopTracking: the flag is cleared and the interval timer with it
StopTracking ==
    /\ client.isTracking
    /\ client' = [client EXCEPT !.isTracking = FALSE]
    /\ UNCHANGED <<clock, proxyVars, dbVars, sched, fan, pushed, call>>

\* the interval timer set by startTracking fires
IntervalFires ==
    /\ client.isTracking
    /\ client.cycle < MaxCycles
    /\ client' = UpdateVehicles(client)
    /\ UNCHANGED <<clock, proxyVars, dbVars, sched, fan, pushed, call>>

\* fetchVehiclesForRoute after getVehiclesByRoute has answered
FetchVehiclesForRoute(f, result) ==
    /\ f \in client.fetching
    /\ client' = [client EXCEPT
                     !.fetching = @ \ {f},
                     !.vehicles =
                         IF result.success /\ client.updateCallbacks
                         THEN HandleVehicleUpdate(@, [routeId |-> f.routeId,
                                                      cycle |-> f.cycle,
                                                      vehicles |-> result.vehicles])
                         ELSE @]
    /\ UNCHANGED <<clock, proxyVars, dbVars, sched, fan, pushed, call>>

-----------------------------------------------------------------------------
(* The proxy process on its own *)

\* advances whose sums make 59 999, 60 000, 74 999, 75 000 and 75 001 ms elapse
ProxyDeltas == {29999, 30000, 15001}
ProxyStart == At(8, 0)

TickProxy(d) ==
    /\ clock + d <= ProxyStart + MaxProxyClock
    /\ clock' = clock + d
    /\ UNCHANGED <<client, call, proxyVars, dbVars, sched, fan, pushed>>

NoResp == Resp("none", None, 0, FALSE, None, None, None, FALSE, None)

CacheKeysOf(f) ==
    IF f = "departures" THEN Stops ELSE IF f = "planner" THEN PlanCacheKeys ELSE {}
RateKeysOf(f) ==
    IF f = "departures" THEN Stops ELSE IF f = "planner" THEN Pairs ELSE {}

\* a freshly started edge-function process: empty module-level maps
ProxyInit(f) ==
    /\ fn = f
    /\ cache = [k \in CacheKeysOf(f) |-> None]
    /\ rateLimitTracker = [k \in RateKeysOf(f) |-> <<>>]
    /\ lastResp = NoResp
    /\ lastUpstream = [k \in RateKeysOf(f) |-> None]
    /\ upstreamUrl = None

InitProxy ==
    /\ clock = ProxyStart
    /\ \E f \in {"departures", "planner", "vehicles"} : ProxyInit(f)
    /\ client = IdleClient
    /\ PipelineInit
    /\ push_tokens = [u \in Accounts |-> {}]

NextProxy ==
    \/ \E d \in ProxyDeltas : TickProxy(d)
    \/ \E s \in Stops, ok \in BOOLEAN :
          \E p \in UpstreamAnswersOf(ok, DepPayloads) : DeparturesRequest(s, ok, p)
    \/ \E v \in Routes, ok \in BOOLEAN :
          \E p \in UpstreamAnswersOf(ok, VehiclePayloads) : VehiclesRequest(v, ok, p)
    \/ \E r \in PlanRequests, up \in UpstreamAnswers : PlannerRequest(r, up)

SpecProxy == InitProxy /\ [][NextProxy]_vars

-----------------------------------------------------------------------------
(* The pipeline: scheduler and fanout invocations over the shared database *)

\* the cron trigger's minute
StartClocks == {At(8, 15), At(8, 45)}

TickMinute ==
    /\ \E c0 \in StartClocks :
         /\ c0 <= clock
         /\ clock + MinuteMs <= c0 + MaxElapsedMinutes * MinuteMs
    /\ clock' = clock + MinuteMs
    /\ UNCHANGED <<client, call, proxyVars, dbVars, sched, fan, pushed>>

Init ==
    /\ clock \in StartClocks
    /\ ProxyInit("planner")
    /\ client = IdleClient
    /\ PipelineInit
    /\ push_tokens \in {t \in [Accounts -> SUBSET Devices] :
                           \A u \in Accounts \ Users : t[u] = {}}

\* no invocation is under way
Quiescent ==
    /\ \A i \in SchedIds : ~Running(i)
    /\ \A r \in FanIds : fan[r].pc \in {"idle", "done"}

\* the steps of the invocations that are under way
Step ==
    \/ \E i \in SchedIds : QueryEvents(i)
    \/ \E i \in SchedIds : QueryPlan(i)
    \/ \E i \in SchedIds, up \in UpstreamAnswers : CallPlanner(i, up)
    \/ \E i \in SchedIds : InsertPlan(i)
    \/ \E i \in SchedIds : SchedQueryTokens(i)
    \/ \E i \in SchedIds : InsertNotification(i)
    \/ \E i \in SchedIds : CallFanout(i)
    \/ \E i \in SchedIds : CallFanoutFails(i)
    \/ \E i \in SchedIds : AwaitFanout(i)
    \/ \E r \in FanIds : FanoutQueryTokens(r)
    \/ \E r \in FanIds :
          \E answer \in ExpoAnswers(Cardinality(fan[r].tokens)) :
              SendExpo(r, answer)
    \/ \E r \in FanIds : MarkFailedNoTokens(r)
    \/ \E r \in FanIds : MarkSent(r)
    \/ \E r \in FanIds : MarkFailed(r)
    \/ \E u \in Users, d \in Devices : RegisterToken(u, d)
    \/ \E u \in Users, d \in Devices : DeletePushToken(u, d)
    \/ TickMinute

\* invocations may overlap: the trigger fires whatever is under way
Next ==
    \/ Step
    \/ \E i \in SchedIds : StartScheduler(i)
    \/ \E r \in FanIds : StartFanout(r)

Spec == Init /\ [][Next]_vars

\* each invocation runs to completion before the trigger fires again
NextSeq ==
    \/ Step
    \/ \E i \in SchedIds : Quiescent /\ StartScheduler(i)
    \/ \E r \in FanIds : Quiescent /\ StartFanout(r)

SpecSeq == Init /\ [][NextSeq]_vars

\* no schedule-notify invocation is under way
SchedQuiet == \A i \in SchedIds : ~Running(i)

\* fanout-push invocations overlap (the trigger's and the scheduler's), the
\* schedule-notify invocations follow one another
NextFanout ==
    \/ Step
    \/ \E i \in SchedIds : SchedQuiet /\ StartScheduler(i)
    \/ \E r \in FanIds : StartFanout(r)

SpecFanout == Init /\ [][NextFanout]_vars

\* schedule-notify invocations overlap, and so do the fanout-push invocations
\* they make; the trigger starts fanout-push only between invocations
NextSched ==
    \/ Step
    \/ \E i \in SchedIds : StartScheduler(i)
    \/ \E r \in FanIds : Quiescent /\ StartFanout(r)

SpecSched == Init /\ [][NextSched]_vars

\* one schedule-notify invocation over the user_settings rows of all the
\* accounts, with database queries and writes that may answer with an error
InitTick ==
    /\ clock \in StartClocks
    /\ ProxyInit("planner")
    /\ client = IdleClient
    /\ PipelineInit
    /\ push_tokens \in [Accounts -> SUBSET Devices]

TheTick == 1

NextTick ==
    \/ StartSchedulerOver(TheTick, Accounts)
    \/ QueryEvents(TheTick)
    \/ QueryEventsFails(TheTick)
    \/ QueryPlan(TheTick)
    \/ QueryPlanFails(TheTick)
    \/ \E up \in UpstreamAnswers : CallPlanner(TheTick, up)
    \/ InsertPlan(TheTick)
    \/ InsertPlanFails(TheTick)
    \/ SchedQueryTokens(TheTick)
    \/ SchedQueryTokensFails(TheTick)
    \/ InsertNotification(TheTick)
    \/ InsertNotificationFails(TheTick)
    \/ CallFanout(TheTick)
    \/ CallFanoutFails(TheTick)
    \/ AwaitFanout(TheTick)
    \/ \E r \in FanIds : FanoutQueryTokens(r)
    \/ \E r \in FanIds :
          \E answer \in ExpoAnswers(Cardinality(fan[r].tokens)) :
              SendExpo(r, answer)
    \/ \E r \in FanIds : MarkFailedNoTokens(r)
    \/ \E r \in FanIds : MarkSent(r)
    \/ \E r \in FanIds : MarkFailed(r)
    \/ \E r \in FanIds : FanoutQueryTokensFails(r)
    \/ \E r \in FanIds : MarkRejected(r)
    \/ \E u \in Accounts, d \in Devices : DeletePushToken(u, d)
    \/ TickMinute

SpecTick == InitTick /\ [][NextTick]_vars

\* Successive invocations of schedule-notify by the cron job, one per minute,
\* each one over before the next begins
CronStart == At(8, 15)

InitCron ==
    /\ clock = CronStart
    /\ ProxyInit("planner")
    /\ client = IdleClient
    /\ PipelineInit
    /\ push_tokens = [u \in Accounts |-> IF u \in Users THEN Devices ELSE {}]

\* the next minute begins and the cron job invokes the function again
CronFires ==
    /\ sched[TheTick].pc = "done"
    /\ clock + MinuteMs <= CronStart + (MaxTicks - 1) * MinuteMs
    /\ clock' = clock + MinuteMs
    /\ sched' = [sched EXCEPT ![TheTick] = IdleSched]
    /\ UNCHANGED <<client, call, proxyVars, dbVars, fan, pushed>>

NextCron ==
    \/ StartScheduler(TheTick)
    \/ QueryEvents(TheTick)
    \/ QueryPlan(TheTick)
    \/ \E up \in UpstreamAnswers : CallPlanner(TheTick, up)
    \/ InsertPlan(TheTick)
    \/ SchedQueryTokens(TheTick)
    \/ InsertNotification(TheTick)
    \/ CallFanout(TheTick)
    \/ CallFanoutFails(TheTick)
    \/ AwaitFanout(TheTick)
    \/ \E r \in FanIds : FanoutQueryTokens(r)
    \/ \E r \in FanIds :
          \E answer \in ExpoAnswers(Cardinality(fan[r].tokens)) :
              SendExpo(r, answer)
    \/ \E r \in FanIds : MarkSent(r)
    \/ \E r \in FanIds : MarkFailed(r)
    \/ CronFires

SpecCron == InitCron /\ [][NextCron]_vars

\* The cron job with a planner that always succeeds with the same trip. The
\* first invocation that sees the user's event is made at one of SteadyStarts
\* (the event or the push token came into being just before); the event of
\* 09:00 is inside the look-ahead window from 08:00 to 08:30
SteadyTrip == Trip(At(8, 30), At(8, 50))
SteadyAnswer == [ok |-> TRUE, trips |-> <<SteadyTrip>>, originOk |-> TRUE, destOk |-> TRUE]
SteadyStarts == {At(8, 1), At(8, 2), At(8, 3), At(8, 4), At(8, 5), At(8, 6)}

InitSteady ==
    /\ clock \in SteadyStarts
    /\ ProxyInit("planner")
    /\ client = IdleClient
    /\ PipelineInit
    /\ push_tokens = [u \in Accounts |-> IF u \in Users THEN Devices ELSE {}]

\* the next minute begins and the cron job invokes the function again
SteadyFires ==
    /\ sched[TheTick].pc = "done"
    /\ clock + MinuteMs <= At(8, 0) + MaxSteadyMinutes * MinuteMs
    /\ clock' = clock + MinuteMs
    /\ sched' = [sched EXCEPT ![TheTick] = IdleSched]
    /\ UNCHANGED <<client, call, proxyVars, dbVars, fan, pushed>>

NextSteady ==
    \/ StartScheduler(TheTick)
    \/ QueryEvents(TheTick)
    \/ QueryPlan(TheTick)
    \/ CallPlanner(TheTick, SteadyAnswer)
    \/ InsertPlan(TheTick)
    \/ SchedQueryTokens(TheTick)
    \/ InsertNotification(TheTick)
    \/ CallFanout(TheTick)
    \/ CallFanoutFails(TheTick)
    \/ AwaitFanout(TheTick)
    \/ \E r \in FanIds : FanoutQueryTokens(r)
    \/ \E r \in FanIds :
          \E answer \in ExpoAnswers(Cardinality(fan[r].tokens)) :
              SendExpo(r, answer)
    \/ \E r \in FanIds : MarkSent(r)
    \/ \E r \in FanIds : MarkFailed(r)
    \/ SteadyFires

\* The evening before quiet hours (22:00-08:00): one run of schedule-notify
\* at 21:58 for the event of 22:45, the planner giving the trip that departs
\* 22:13, and runs of fanout-push, its own and those of the external trigger
EveningStart == At(21, 58)
EveningTrip == Trip(At(22, 13), At(22, 35))
EveningAnswer == [ok |-> TRUE, trips |-> <<EveningTrip>>, originOk |-> TRUE, destOk |-> TRUE]

InitEvening ==
    /\ clock = EveningStart
    /\ ProxyInit("planner")
    /\ client = IdleClient
    /\ PipelineInit
    /\ push_tokens = [u \in Accounts |-> IF u \in Users THEN Devices ELSE {}]

\* a minute passes
EveningTick ==
    /\ clock + MinuteMs <= EveningStart + MaxEveningMinutes * MinuteMs
    /\ clock' = clock + MinuteMs
    /\ UNCHANGED <<client, call, proxyVars, dbVars, sched, fan, pushed>>

NextEvening ==
    \/ StartScheduler(TheTick)
    \/ QueryEvents(TheTick)
    \/ QueryPlan(TheTick)
    \/ CallPlanner(TheTick, EveningAnswer)
    \/ InsertPlan(TheTick)
    \/ SchedQueryTokens(TheTick)
    \/ InsertNotification(TheTick)
    \/ CallFanout(TheTick)
    \/ CallFanoutFails(TheTick)
    \/ AwaitFanout(TheTick)
    \/ \E r \in FanIds : StartFanout(r)
    \/ \E r \in FanIds : FanoutQueryTokens(r)
    \/ \E r \in FanIds :
          \E answer \in ExpoAnswers(Cardinality(fan[r].tokens)) :
              SendExpo(r, answer)
    \/ \E r \in FanIds : MarkSent(r)
    \/ \E r \in FanIds : MarkFailed(r)
    \/ EveningTick

SpecEvening == InitEvening /\ [][NextEvening]_vars

\* every invocation runs to its end and the cron job goes on firing
SpecSteady == InitSteady /\ [][NextSteady]_vars /\ WF_vars(NextSteady)

-----------------------------------------------------------------------------
(* The pending-notifications query on its own *)

\* notifications tables for the pending-notifications query: n rows whose
\* scheduled_for ascends, descends or is mixed along the row ids, every
\* third row already sent (done), every fifth row not yet due (future)
QueryNow == At(9, 0)
ExtraRows == 2
TableSizes ==
    (0..3) \cup ((FANOUT_BATCH_LIMIT - 1)..(FANOUT_BATCH_LIMIT + ExtraRows))
TableKinds == [order : {"asc", "desc", "mixed"}, done : BOOLEAN, future : BOOLEAN]
TableRow(k, n, kind) ==
    [user_id |-> "u1", trip_plan_id |-> 1, event_id |-> 1,
     type |-> "departure_reminder",
     status |-> IF kind.done /\ k % 3 = 0 THEN "sent" ELSE "pending",
     scheduled_for |->
        IF kind.future /\ k % 5 = 0 THEN QueryNow + MinuteMs
        ELSE IF kind.order = "asc" THEN At(8, 0) + (k \div 2) * 1000
        ELSE IF kind.order = "desc" THEN At(8, 0) + ((n - k) \div 2) * 1000
        ELSE At(8, 0) + ((k * 7) % 11) * 1000,
     sent_at |-> None]

RECURSIVE TableUpTo(_, _, _)
TableUpTo(m, n, kind) ==
    IF m = 0 THEN <<>> ELSE Append(TableUpTo(m - 1, n, kind), TableRow(m, n, kind))

Table(n, kind) == TableUpTo(n, n, kind)

\* serve, lines 71-78: the query of a run on the table as it is
PendingNotificationsQuery ==
    /\ call' = [fn |-> "pendingNotifications", now |-> clock,
                result |-> PendingNotifications(clock)]
    /\ UNCHANGED <<client, clock, proxyVars, dbVars, sched, fan, pushed>>

InitQuery ==
    /\ clock = QueryNow
    /\ ProxyInit("planner")
    /\ client = IdleClient
    /\ trip_plans = <<>>
    /\ \E n \in TableSizes, kind \in TableKinds : notifications = Table(n, kind)
    /\ push_tokens = [u \in Accounts |-> {}]
    /\ sched = [i \in SchedIds |-> IdleSched]
    /\ fan = [r \in FanIds |-> IdleFan]
    /\ pushed = [n \in DOMAIN notifications |-> 0]
    /\ call = NoCall

NextQuery == PendingNotificationsQuery

SpecQuery == InitQuery /\ [][NextQuery]_vars

\* fanout-push invoked again and again by its trigger, every run over before
\* the next begins, on a table with more rows than one batch holds (the
\* user's tokens deleted meanwhile) or with a few rows of a user with a token
InitDrain ==
    /\ clock = QueryNow
    /\ ProxyInit("planner")
    /\ client = IdleClient
    /\ trip_plans = <<>>
    /\ \/ /\ \E kind \in TableKinds :
                notifications = Table(FANOUT_BATCH_LIMIT + ExtraRows, kind)
          /\ push_tokens = [u \in Accounts |-> {}]
       \/ /\ \E n \in 0..3, kind \in TableKinds : notifications = Table(n, kind)
          /\ push_tokens = [u \in Accounts |-> IF u \in Users THEN Devices ELSE {}]
    /\ sched = [i \in SchedIds |-> IdleSched]
    /\ fan = [r \in FanIds |-> IdleFan]
    /\ pushed = [n \in DOMAIN notifications |-> 0]
    /\ call = NoCall

NextDrain ==
    \/ \E r \in FanIds : Quiescent /\ StartFanout(r)
    \/ \E r \in FanIds : FanoutQueryTokens(r)
    \/ \E r \in FanIds :
          \E answer \in ExpoAnswers(Cardinality(fan[r].tokens)) :
              SendExpo(r, answer)
    \/ \E r \in FanIds : MarkFailedNoTokens(r)
    \/ \E r \in FanIds : MarkSent(r)
    \/ \E r \in FanIds : MarkFailed(r)

\* every run goes on to its end and the trigger goes on invoking
SpecDrain == InitDrain /\ [][NextDrain]_vars /\ WF_vars(NextDrain)

\* the mobile client on its own
InitClient ==
    /\ clock = ProxyStart
    /\ ProxyInit("vehicles")
    /\ PipelineInit
    /\ push_tokens = [u \in Accounts |-> {}]
    /\ client = IdleClient

NextClient ==
    \/ ShowMarkers
    \/ HideMarkers
    \/ \E routeId \in ClientRoutes : FollowRoute(routeId)
    \/ \E routeId \in ClientRoutes : UnfollowRoute(routeId)
    \/ IntervalFires
    \/ StopTracking
    \/ \E routeId \in ClientRoutes, c \in 0..MaxCycles, result \in VehicleResults :
          FetchVehiclesForRoute([routeId |-> routeId, cycle |-> c], result)

SpecClient == InitClient /\ [][NextClient]_vars

-----------------------------------------------------------------------------
(* The helper functions on their own *)

\* the times of day at which the quiet-hours test is made
QuietCheckTimes ==
    {At(0, 0), At(5, 0), At(7, 59), At(8, 0), At(8, 1), At(12, 0),
     At(21, 59), At(22, 0), At(22, 1), At(23, 30)}

\* quiet_hours_start / quiet_hours_end as stored: "HH:MM:SS" (setHomePoint, a
\* TIME column) or "HH:MM" (SettingsScreen)
QuietSettings ==
    {<<<<22, 0, 0>>, <<8, 0, 0>>>>, <<<<22, 0>>, <<8, 0>>>>,
     <<<<8, 0, 0>>, <<22, 0, 0>>>>, <<<<8, 0>>, <<22, 0>>>>,
     <<<<12, 0, 0>>, <<12, 0, 0>>>>}

\* serve, line 111: isInQuietHours(now, quiet_hours_start, quiet_hours_end)
IsInQuietHoursCall(now, startTime, endTime) ==
    /\ call' = [fn |-> "isInQuietHours", now |-> now, startTime |-> startTime,
                endTime |-> endTime,
                result |-> IsInQuietHours(now, startTime, endTime)]
    /\ UNCHANGED <<client, clock, proxyVars, dbVars, sched, fan, pushed>>

\* tripPlanning.ts, findNextEvent.  Instants are ms since a Sunday 00:00 UTC;
\* tz is the device's offset from UTC, which the Date getters and setters apply
DayMs == 24 * 60 * MinuteMs
HourMs == 60 * MinuteMs
CDT_SHIFT_HOURS == 5

GetDay(t, tz) == ((t + tz) \div DayMs) % 7
GetHours(t, tz) == ((t + tz) \div HourMs) % 24
GetMinutes(t, tz) == ((t + tz) \div MinuteMs) % 60

\* findNextEvent with eventTime < currentTime as the test for "has passed"
DaysUntilNextStrict(eventDay, eventTime, currentDay, currentTime) ==
    LET daysUntilNext == (eventDay - currentDay + 7) % 7 IN
    IF daysUntilNext = 0 /\ eventTime < currentTime THEN 7 ELSE daysUntilNext

\* findNextEvent, lines 277-282
DaysUntilNext(eventDay, eventTime, currentDay, currentTime) ==
    LET daysUntilNext == (eventDay - currentDay + 7) % 7 IN
    IF daysUntilNext = 0 /\ eventTime <= currentTime THEN 7 ELSE daysUntilNext

\* findNextEvent, lines 260-286: the next occurrence of one event
NextOccurrence(event, now, tz) ==
    LET currentDay == GetDay(now, tz)
        currentTime == GetHours(now, tz) * 60 + GetMinutes(now, tz)
        originalEventTime == event.start_ts
        eventDay == GetDay(originalEventTime, tz)
        localEventTime == originalEventTime + CDT_SHIFT_HOURS * HourMs
        eventTime == GetHours(localEventTime, tz) * 60 + GetMinutes(localEventTime, tz)
        daysUntilNext == DaysUntilNext(eventDay, eventTime, currentDay, currentTime)
        \* new Date(now); setDate(getDate() + daysUntilNext); setHours(h, m, 0, 0)
        midnight == now - ((now + tz) % DayMs)
    IN midnight + daysUntilNext * DayMs + eventTime * MinuteMs

\* upcomingEvents[0] without the sort
EarliestIndexUnsorted(occurrences) == 1

\* findNextEvent, lines 301-302: the index that the (stable) sort puts first
EarliestIndex(occurrences) ==
    CHOOSE i \in DOMAIN occurrences :
        \A j \in DOMAIN occurrences :
            occurrences[i] < occurrences[j] \/ (occurrences[i] = occurrences[j] /\ i <= j)

\* findNextEvent
FindNextEvent(events, now, tz) ==
    IF Len(events) = 0 THEN None
    ELSE LET occurrences == [k \in DOMAIN events |-> NextOccurrence(events[k], now, tz)]
             first == EarliestIndex(occurrences)
         IN Some([id |-> events[first].id, start_ts |-> occurrences[first]])

\* a week after the epoch: Sunday 00:00 UTC
WeekStart == 7 * DayMs
OnDay(d, h, m) == WeekStart + d * DayMs + h * HourMs + m * MinuteMs

\* stored start_ts values of weekly events (UTC)
EventStarts ==
    {OnDay(1, 9, 0), OnDay(3, 3, 0), OnDay(3, 10, 0), OnDay(3, 10, 1), OnDay(6, 23, 0)}
CalendarEvents == {[id |-> s, start_ts |-> s] : s \in EventStarts}
MaxEvents == 2
EventLists ==
    UNION {[1..n -> CalendarEvents] : n \in 0..MaxEvents}

\* the device's clock when findNextEvent runs: Wednesday 10:00 local time (CDT)
\* to the second and half a minute later, a Sunday and a Saturday night
ResolverNows ==
    {OnDay(3, 15, 0), OnDay(3, 15, 0) + 30000, OnDay(3, 16, 1),
     OnDay(0, 5, 0), OnDay(7, 4, 59) + 30000}
DeviceOffsets == {-(5 * HourMs), -(6 * HourMs)}

\* planTripToNextEvent, line 70: findNextEvent(calendarEvents)
FindNextEventCall(events, now, tz) ==
    /\ call' = [fn |-> "findNextEvent", events |-> events, now |-> now, tz |-> tz,
                result |-> FindNextEvent(events, now, tz)]
    /\ UNCHANGED <<client, clock, proxyVars, dbVars, sched, fan, pushed>>

\* part_009, getTripOriginPoint
HOME_ORIGIN_HOURS == 24

\* getTripOriginPoint with "24 hours or more" as the test for a far event
GetTripOriginPointFrom24(currentLocation, hoursUntilEvent, homePoint) ==
    IF /\ hoursUntilEvent # None /\ The(hoursUntilEvent) # 0
       /\ The(hoursUntilEvent) >= HOME_ORIGIN_HOURS
       /\ homePoint # None
    THEN homePoint
    ELSE IF currentLocation # None
    THEN Some([at |-> The(currentLocation), label |-> "Current Location"])
    ELSE homePoint

\* getTripOriginPoint; homePoint is what getHomePoint returns (null when no
\* home point is set)
GetTripOriginPoint(currentLocation, hoursUntilEvent, homePoint) ==
    IF /\ hoursUntilEvent # None /\ The(hoursUntilEvent) # 0
       /\ The(hoursUntilEvent) > HOME_ORIGIN_HOURS
       /\ homePoint # None
    THEN homePoint
    ELSE IF currentLocation # None
    THEN Some([at |-> The(currentLocation), label |-> "Current Location"])
    ELSE homePoint

CurrentLocations == {None, Some("here")}
HomePoints == {None, Some([at |-> "home", label |-> "Home"])}
MaxHours == 26
HoursUntilEvent == {None} \cup {Some(h) : h \in 0..MaxHours}

\* planTripToNextEvent: getTripOriginPoint(currentLocation, hoursUntilEvent)
GetTripOriginPointCall(currentLocation, hoursUntilEvent, homePoint) ==
    /\ call' = [fn |-> "getTripOriginPoint", currentLocation |-> currentLocation,
                hoursUntilEvent |-> hoursUntilEvent, homePoint |-> homePoint,
                result |-> GetTripOriginPoint(currentLocation, hoursUntilEvent, homePoint)]
    /\ UNCHANGED <<client, clock, proxyVars, dbVars, sched, fan, pushed>>

\* planTripToNextEvent (tripPlanning.ts). Coordinates are in 1e-5 degrees.
Stop(id, lat, lon) == [id |-> id, lat |-> lat, lon |-> lon]
Point(lat, lon) == [lat |-> lat, lon |-> lon]

\* findNearestStop, lines 385-403: the stops used when transit-stops gives none
FallbackStops ==
    <<Stop("1STGRG", 4010960, -8822720), Stop("1STDAN", 4010200, -8822720),
      Stop("1STARY", 4011350, -8822440), Stop("GREEN", 4010960, -8822720),
      Stop("WRIGHT", 4010960, -8822720), Stop("LINCOLN", 4010960, -8822720),
      Stop("PLAZA", 4010847, -8822896), Stop("PKWRT", 4011738, -8822868),
      Stop("PKRMN", 4011741, -8822702), Stop("150DALE", 4010847, -8822896),
      Stop("UNION", 4010960, -8822720), Stop("LIBRARY", 4010960, -8822720),
      Stop("ECE", 4010960, -8822720), Stop("ENGINEERING", 4010960, -8822720)>>

\* planTripToNextEvent, lines 134-144: the stops the destination is replaced from
AlternativeStops ==
    <<Stop("1STDAN", 4010200, -8822720), Stop("1STARY", 4011350, -8822440),
      Stop("GREEN", 4010960, -8822720), Stop("WRIGHT", 4010960, -8822720),
      Stop("LINCOLN", 4010960, -8822720), Stop("UNION", 4010960, -8822720),
      Stop("LIBRARY", 4010960, -8822720), Stop("ECE", 4010960, -8822720),
      Stop("ENGINEERING", 4010960, -8822720)>>

\* what the transit-stops function may answer with
ApiStops == <<Stop("IU", 4010960, -8822720), Stop("PLAZA", 4010847, -8822896)>>

\* calculateDistance, lines 430-439: the great-circle distance, here the
\* square of its planar approximation at this latitude (cos 40.1 deg ~ 3/4),
\* which orders the points as the distance does
Distance(p, q) ==
    (4 * (p.lat - q.lat)) * (4 * (p.lat - q.lat))
    + (3 * (p.lon - q.lon)) * (3 * (p.lon - q.lon))

RECURSIVE ClosestFrom(_, _, _, _)
\* the loop `if (distance < minDistance) closestStop = stop`, from index k on
ClosestFrom(stops, point, k, best) ==
    IF k > Len(stops) THEN best
    ELSE ClosestFrom(stops, point, k + 1,
                     IF Distance(point, stops[k]) < Distance(point, best)
                     THEN stops[k] ELSE best)

\* the closest stop of a non-empty list, the first of those equally close
Closest(stops, point) == ClosestFrom(stops, point, 1, stops[1])

\* findNearestStop, lines 343-424; api is the answer of transit-stops (None
\* when it fails or is empty), failed tells that the function threw
FindNearestStop(point, api, failed) ==
    IF failed THEN None
    ELSE IF api # None THEN Some(Closest(The(api), point).id)
    ELSE Some(Closest(FallbackStops, point).id)

\* planTripToNextEvent, lines 130-171: the destination stop given to the planner
PlannerDestination(originStop, destinationStop, destinationPoint) ==
    IF originStop = destinationStop
    THEN Closest(AlternativeStops, destinationPoint).id
    ELSE destinationStop

\* value || fallback with the fallback forgotten
OrElseNothing(value, fallback) == IF value = None THEN "" ELSE The(value)

\* value || fallback on strings
OrElse(value, fallback) ==
    IF value = None \/ The(value) = "" THEN fallback ELSE The(value)

\* tripResult.error || 'No trip options available'
PlanningFailedMessage(tripError, fallback) == OrElse(tripError, fallback)

Failed(error, message) ==
    [success |-> FALSE, error |-> error, message |-> message, tripPlan |-> None,
     thrown |-> FALSE]

\* planTripToNextEvent, lines 57-247. nextEvent is what findNextEvent gives,
\* originPoint what getTripOriginPoint gives, destinationPoint what
\* getEventLocation gives; tripResult is planTrip's result and raised tells
\* that a call made inside the try block threw
PlanTripToNextEvent(nextEvent, originPoint, destinationPoint, api, stopsFailed, tripResult, raised) ==
    IF raised
    THEN Failed("Unexpected error",
                "An unexpected error occurred while planning your trip")
    ELSE IF nextEvent = None
    THEN Failed("No calendar events found for trip planning",
                "Please upload your calendar or add events to plan trips")
    ELSE IF originPoint = None
    THEN Failed("No origin point available",
                "Please set your home location or enable location services")
    ELSE IF destinationPoint = None
    THEN Failed("No event location", "Event has no location information")
    ELSE LET originStop == FindNearestStop(The(originPoint), api, stopsFailed)
             destinationStop == FindNearestStop(The(destinationPoint), api, stopsFailed)
         IN IF originStop = None \/ destinationStop = None
            THEN Failed("No nearby stops",
                        "Could not find bus stops near your location or event location")
            ELSE IF ~tripResult.success \/ Len(tripResult.trips) = 0
            THEN Failed("Trip planning failed",
                        PlanningFailedMessage(tripResult.error, "No trip options available"))
            ELSE [success |-> TRUE, error |-> "", message |-> "Trip planned",
                  tripPlan |-> Some(tripResult.trips[1]), thrown |-> FALSE]

\* the stops planTrip is called with (lines 190-196), which happens when the
\* event, both points and both stops were found
PlannerStops(originPoint, destinationPoint, api) ==
    LET originStop == The(FindNearestStop(originPoint, api, FALSE))
        destinationStop == The(FindNearestStop(destinationPoint, api, FALSE))
    IN [originStop |-> originStop, nearestDestinationStop |-> destinationStop,
        plannerDestination |->
            PlannerDestination(originStop, destinationStop, destinationPoint)]

\* the places trips are planned between: at First & Daniel and at Transit Plaza
PlanPoints == {Point(4010200, -8822720), Point(4010847, -8822896)}
\* what goes wrong inside the try block: nothing, findNearestStop fails, or
\* some call throws
Faults == {"none", "stops", "raised"}
NextEvents == {None, Some("lecture")}
ApiAnswers == {None, Some(ApiStops)}
\* planTrip's results: trips, no trips, an error with and without a text
TripResults ==
    {[success |-> TRUE, trips |-> <<"tripA">>, error |-> None],
     [success |-> TRUE, trips |-> <<>>, error |-> None],
     [success |-> FALSE, trips |-> <<>>, error |-> Some("Rate limit exceeded")],
     [success |-> FALSE, trips |-> <<>>, error |-> Some("")],
     [success |-> FALSE, trips |-> <<>>, error |-> None]}

PlanTripToNextEventCall(nextEvent, originPoint, destinationPoint, api, stopsFailed, tripResult, raised) ==
    /\ call' = [fn |-> "planTripToNextEvent",
                result |-> PlanTripToNextEvent(nextEvent, originPoint, destinationPoint,
                                               api, stopsFailed, tripResult, raised),
                stops |-> IF /\ ~raised /\ ~stopsFailed /\ nextEvent # None
                             /\ originPoint # None /\ destinationPoint # None
                          THEN Some(PlannerStops(The(originPoint),
                                                 The(destinationPoint), api))
                          ELSE None,
                tripResult |-> tripResult]
    /\ UNCHANGED <<client, clock, proxyVars, dbVars, sched, fan, pushed>>

\* userSettings.ts (part_009): the user's user_settings row, whose primary
\* key is user_id. A row is absent (None) or Some of its columns
SettingsRow(home_point, lead, quietStart, quietEnd, home_label, timezone) ==
    [home_point |-> home_point, notify_lead_minutes |-> lead,
     quiet_hours_start |-> quietStart, quiet_hours_end |-> quietEnd,
     home_label |-> home_label, timezone |-> timezone]

\* the row an insert without values makes: the columns' defaults
DefaultSettings ==
    SettingsRow(None, 15, <<22, 0, 0>>, <<8, 0, 0>>, "Home", "America/Chicago")

\* setHomePoint, lines 389-428: the upsert names every column, so the row
\* that exists is overwritten in all of them
SetHomePoint(existing, homePoint) ==
    SettingsRow(Some(homePoint.point), 15, <<22, 0, 0>>, <<8, 0, 0>>,
                IF homePoint.label = "" THEN "Home" ELSE homePoint.label,
                "America/Chicago")

\* updateNotificationPreferences, lines 496-526: the upsert names the
\* columns the caller gave; the others keep their value (or get the default)
UpdateNotificationPreferences(existing, preferences) ==
    LET row == IF existing = None THEN DefaultSettings ELSE The(existing) IN
    [row EXCEPT
        !.notify_lead_minutes = IF preferences.notify_lead_minutes = None THEN @
                                ELSE The(preferences.notify_lead_minutes),
        !.quiet_hours_start = IF preferences.quiet_hours_start = None THEN @
                              ELSE The(preferences.quiet_hours_start),
        !.quiet_hours_end = IF preferences.quiet_hours_end = None THEN @
                            ELSE The(preferences.quiet_hours_end)]

\* what the settings screen saves and the places a user makes their home
Preferences ==
    [notify_lead_minutes : {None, Some(30)},
     quiet_hours_start : {None, Some(<<23, 0>>)},
     quiet_hours_end : {None, Some(<<7, 0>>)}]
HomePointInputs == [point : {"home", "dorm"}, label : {"", "Dorm"}]

\* a user saves preferences and then sets the home point
SetHomePointCall(preferences, homePoint) ==
    LET before == UpdateNotificationPreferences(None, preferences) IN
    /\ call' = [fn |-> "setHomePoint", before |-> before,
                after |-> SetHomePoint(Some(before), homePoint)]
    /\ UNCHANGED <<client, clock, proxyVars, dbVars, sched, fan, pushed>>

NextPure ==
    \/ \E preferences \in Preferences, homePoint \in HomePointInputs :
          SetHomePointCall(preferences, homePoint)
    \/ \E nextEvent \in NextEvents,
          originPoint \in {None} \cup {Some(p) : p \in PlanPoints},
          destinationPoint \in {None} \cup {Some(p) : p \in PlanPoints},
          api \in ApiAnswers, fault \in Faults, tripResult \in TripResults :
          PlanTripToNextEventCall(nextEvent, originPoint, destinationPoint, api,
                                  fault = "stops", tripResult, fault = "raised")
    \/ \E c \in CurrentLocations, h \in HoursUntilEvent, p \in HomePoints :
          GetTripOriginPointCall(c, h, p)
    \/ \E events \in EventLists, now \in ResolverNows, tz \in DeviceOffsets :
          FindNextEventCall(events, now, tz)
    \/ \E now \in QuietCheckTimes, q \in QuietSettings : IsInQuietHoursCall(now, q[1], q[2])

\* the helper functions do not read the pipeline's state
InitPure ==
    /\ clock = ProxyStart
    /\ ProxyInit("planner")
    /\ client = IdleClient
    /\ PipelineInit
    /\ push_tokens = [u \in Accounts |-> {}]

SpecPure == InitPure /\ [][NextPure]_vars

-----------------------------------------------------------------------------
(* Properties of the transit proxies *)

\* the answer a cache hit gives: the stored data, tagged cached, no upstream call
ServedFromCache(resp, cached) ==
    /\ resp.status = 200
    /\ resp.cached
    /\ resp.data = Some(The(cached).data)
    /\ ~resp.upstream

\* C7: for every resource key, a call made while the key's cached entry is
\* younger than the TTL (60 s departures, 75 s trip plans) returns that entry's
\* data tagged cached=true and does not invoke the upstream fetcher.
C7_CallWithinTtlIsServedFromCache ==
    [][ /\ \A s \in Stops, ok \in BOOLEAN :
             \A p \in UpstreamAnswersOf(ok, DepPayloads) :
                (DeparturesRequest(s, ok, p) /\ CacheFresh(cache[s], clock, DEP_CACHE_TTL))
                   => ServedFromCache(lastResp', cache[s])
        /\ \A r \in PlanRequests, up \in UpstreamAnswers :
             (PlannerRequest(r, up)
              /\ CacheFresh(cache[PlanCacheKey(r)], clock, PLAN_CACHE_TTL))
                => ServedFromCache(lastResp', cache[PlanCacheKey(r)]) ]_vars

\* C8: for every resource key, two upstream calls for the key are at least one
\* rate-limit window (60 s) apart, whether or not they succeed.
C8_UpstreamAtMostOncePerWindow ==
    [][ \A k \in DOMAIN lastUpstream :
          (lastUpstream[k] # None /\ lastUpstream'[k] # lastUpstream[k])
             => The(lastUpstream'[k]) - The(lastUpstream[k]) >= RATE_LIMIT_WINDOW ]_vars

\* C9: every rate-limit rejection (429) carries a retry-after that is at least
\* 1 second and at most the window length, 60 seconds.
C9_RetryAfterPositiveAtMostWindow ==
    lastResp.status = 429 =>
        /\ lastResp.retryAfter # None
        /\ The(lastResp.retryAfter) >= 1
        /\ The(lastResp.retryAfter) * 1000 <= RATE_LIMIT_WINDOW

\* a rejection one millisecond before the window ends: retry-after rounds up to 1
C9_Witness ==
    /\ lastResp.status = 429
    /\ lastResp.retryAfter = Some(1)
    /\ \E k \in DOMAIN rateLimitTracker :
         /\ rateLimitTracker[k] # <<>>
         /\ clock - rateLimitTracker[k][1] = RATE_LIMIT_WINDOW - 1

\* C25: whenever a call of the departures or of the vehicles proxy reaches
\* the upstream and the upstream answers non-2xx, the response is an error (no
\* data, a non-2xx status) that carries the upstream's status and its body
C25_UpstreamErrorIsSurfaced ==
    [][ /\ \A s \in Stops, p \in UpstreamErrors :
             (DeparturesRequest(s, FALSE, p) /\ lastResp'.upstream)
                => /\ lastResp'.data = None
                   /\ lastResp'.status = p.status
                   /\ lastResp'.error # None
                   /\ The(lastResp'.error).status = Some(p.status)
                   /\ The(lastResp'.error).details = Some(p.body)
        /\ \A v \in Routes, p \in UpstreamErrors :
             VehiclesRequest(v, FALSE, p)
                => /\ lastResp'.data = None
                   /\ lastResp'.status = p.status
                   /\ lastResp'.error # None
                   /\ The(lastResp'.error).status = Some(p.status)
                   /\ The(lastResp'.error).details = Some(p.body) ]_vars

\* the arrival time the caller of the planner proxy asks for
GivenArrival(req) == IF req.arrive_by # None THEN req.arrive_by ELSE req.arriveBy

\* C26: the arrival time of the upstream plan-trip call is the arrival time
\* the proxy's caller gave
C26_UpstreamCallUsesGivenArrival ==
    [][\A r \in PlanRequests, up \in UpstreamAnswers :
          (PlannerRequest(r, up) /\ lastResp'.upstream)
          => The(upstreamUrl').arrive = GivenArrival(r)]_vars

\* C18: whenever the planner consults the upstream and the upstream fails or
\* returns no itinerary, the response is a synthesized fallback plan (the
\* fallback's own two departures queries succeeding)
C18_FallbackOnFailureOrNoItinerary ==
    [][\A r \in PlanRequests, up \in UpstreamAnswers :
          (/\ PlannerRequest(r, up)
           /\ lastResp'.upstream
           /\ up.originOk /\ up.destOk
           /\ (~up.ok \/ up.trips = <<>>))
          => /\ lastResp'.status = 200
             /\ The(lastResp'.data).fallback
             /\ Len(The(lastResp'.data).trips) = 1]_vars

\* C19: a fallback plan is a single trip that departs exactly 15 minutes
\* before the arrival time the caller requested
C19_FallbackDepartsQuarterHourBeforeArrival ==
    (/\ lastResp.kind = "planner"
     /\ lastResp.status = 200
     /\ The(lastResp.data).fallback)
    => LET req == lastResp.key
           requested == IF req.arriveBy # None THEN req.arriveBy ELSE req.arrive_by
           trips == The(lastResp.data).trips
       IN /\ Len(trips) = 1
          /\ requested # None
          /\ trips[1].startTime = The(requested) - 15 * MinuteMs

-----------------------------------------------------------------------------
(* Properties of the scheduler *)

SamePair(p, q) ==
    /\ trip_plans[p].user_id = trip_plans[q].user_id
    /\ trip_plans[p].event_id = trip_plans[q].event_id

\* C1: when schedule-notify invocations follow one another, a (user, event)
\* pair gets no second trip_plans row while its last row is fresh: two rows of
\* one pair are created more than five minutes apart
C1_NoSecondPlanWhileFresh ==
    \A p, q \in PlanIds :
        (p < q /\ SamePair(p, q)) =>
            trip_plans[q].created_at > trip_plans[p].created_at + RECENT_PLAN_MIN * MinuteMs

\* a second invocation, started within a minute of the first, has found the
\* first one's plan and has ended without a second row
C1_Witness ==
    /\ sched[1].pc = "done"
    /\ sched[2].pc = "done"
    /\ sched[2].now - sched[1].now <= MinuteMs
    /\ Len(trip_plans) = 1
    /\ trip_plans[1].created_at <= sched[2].now
    /\ sched[2].processed = 1

\* C2: overlapping schedule-notify invocations create at most one trip_plans
\* row for a (user, event) pair
C2_AtMostOnePlanPerPair ==
    \A p, q \in PlanIds : SamePair(p, q) => p = q

\* C10: an invocation that ran at the event's start minus the 15 minutes of
\* lead, for a user with a push token, leaves exactly one trip_plans row and
\* exactly one pending notification for the event
C10_RunAtLeadTimeMakesPlanAndNotification ==
    \A i \in SchedIds, e \in Events :
        (/\ sched[i].pc = "done"
         /\ sched[i].now = e.start_time - UserSettings(e.user_id).notify_lead_minutes * MinuteMs
         /\ push_tokens[e.user_id] # {})
        => /\ Cardinality({p \in PlanIds : trip_plans[p].event_id = e.id}) = 1
           /\ Cardinality({n \in NotificationIds :
                               /\ notifications[n].event_id = e.id
                               /\ notifications[n].status = "pending"}) = 1

\* C11: when a reminder is due for a user without push tokens, the scheduler
\* still creates the notification row (which the fanout then marks failed)
C11_DueReminderWithoutTokensCreatesRow ==
    [][\A i \in SchedIds :
          (/\ sched[i].pc = "tokens"
           /\ sched'[i] # sched[i]
           /\ push_tokens[Head(sched[i].todo)] = {})
          => Len(notifications') = Len(notifications) + 1]_vars

\* C12: an invocation that finds a fresh plan whose reminder is due (now
\* within 2 minutes of departure - lead), for a user with a push token and
\* with no notification of that plan yet, goes on to create the notification
\* instead of leaving the user
C12_DueReminderOfFreshPlanIsEnqueued ==
    [][\A i \in SchedIds :
          LET u == Head(sched[i].todo) IN
          (/\ sched[i].pc = "queryPlan"
           /\ sched'[i] # sched[i]
           /\ push_tokens[u] # {}
           /\ \E p \in RecentPlans(u, The(sched[i].event), sched[i].now) :
                 /\ ShouldSendNotification(UserSettings(u), trip_plans[p], clock)
                 /\ \A n \in NotificationIds : notifications[n].trip_plan_id # p)
          => sched'[i].todo = sched[i].todo]_vars

\* the planner's answer to the run's request for the user it is at, were
\* that user the first of the run (the run starts on a fresh planner process)
AnswerIfFirst(i, up) ==
    LET event == EventById(The(sched[i].event))
        req == PlanReq(PairOf(UserSettings(Head(sched[i].todo)), event),
                       Some(event.start_time), None)
    IN PlannerHandle(req, clock, None, <<>>, up).resp

\* createTripPlan goes on to the insert: a 2xx answer with a trip
GivesTrip(resp) ==
    /\ resp.status = 200
    /\ The(resp.data).success
    /\ Len(The(resp.data).trips) > 0

\* the users the run has gone through
UsersDone(i) == Cardinality(Accounts) - Len(sched[i].todo)

\* C21: when the processing of every user before the current one has failed
\* in the run, the current user is planned for exactly as if those users
\* were absent: the run goes on to insert a plan iff it would as first user
C21_FailedUserLeavesOthersUnaffected ==
    [][\A up \in UpstreamAnswers :
          (/\ CallPlanner(TheTick, up)
           /\ UsersDone(TheTick) > 0
           /\ sched[TheTick].errors = UsersDone(TheTick))
          => (sched'[TheTick].pc = "insertPlan")
               = GivesTrip(AnswerIfFirst(TheTick, up))]_vars

\* C24: whether a plan is made for a user of a run depends neither on the
\* other users of the run nor on the order: the run goes on to insert a plan
\* for the user iff it would, were the user the first of the run
C24_PlanIndependentOfOtherUsers ==
    [][\A up \in UpstreamAnswers :
          CallPlanner(TheTick, up)
          => (sched'[TheTick].pc = "insertPlan")
               = GivesTrip(AnswerIfFirst(TheTick, up))]_vars

-----------------------------------------------------------------------------
(* Properties of the fanout *)

Terminal(status) == status \in {"sent", "failed"}

\* C3: a notification's status only goes from pending to sent or to failed,
\* and a sent or failed notification keeps its status
C3_StatusOneDirectional ==
    [][\A n \in NotificationIds :
          \/ notifications'[n].status = notifications[n].status
          \/ /\ notifications[n].status = "pending"
             /\ Terminal(notifications'[n].status)]_vars

C5_TerminalNeverSelected ==
    [][\A r \in FanIds :
          /\ (fan[r].pc = "idle" /\ fan'[r].pc # "idle")
             => \A k \in DOMAIN fan'[r].batch :
                    notifications[fan'[r].batch[k]].status = "pending"
          /\ fan[r].pc # "idle" => fan'[r].batch = fan[r].batch
          /\ \A n \in NotificationIds :
                (fan'[r] # fan[r] /\ \A k \in DOMAIN fan'[r].batch : fan'[r].batch[k] # n)
                => notifications'[n] = notifications[n] /\ pushed'[n] = pushed[n]]_vars

\* the first run has brought the only notification to sent or failed, and
\* the run after it has selected nothing
C5_Witness ==
    /\ Len(notifications) = 1
    /\ Terminal(notifications[1].status)
    /\ fan[1].pc = "done" /\ fan[1].batch = <<1>>
    /\ fan[2].pc = "done" /\ fan[2].batch = <<>>

\* C6: the messages of a notification are submitted to Expo at most once
C6_SubmittedAtMostOnce ==
    \A n \in NotificationIds : pushed[n] <= 1

C20_WitnessFailed ==
    \E r \in FanIds :
        /\ fan[r].pc = "markFailed"
        /\ The(fan[r].expo).ok
        /\ The(fan[r].expo).data[1] = "error"

\* the notifications of a run's batch
BatchIds(r) == {fan[r].batch[k] : k \in DOMAIN fan[r].batch}

\* C23: the batch a run goes through, in this order, holds only rows that
\* were pending and due at the query, each once, in non-decreasing
\* scheduled_for order; it holds at most 50 rows, as many as there are up to
\* 50, and no row left out is scheduled earlier than a row of the batch
C23_BatchIsOldestFiftyPendingDue ==
    call.fn = "pendingNotifications" =>
        LET rows == notifications
            batch == call.result
            due == {id \in DOMAIN rows : /\ rows[id].status = "pending"
                                         /\ rows[id].scheduled_for <= call.now}
            inBatch == {batch[k] : k \in DOMAIN batch}
        IN /\ inBatch \subseteq due
           /\ \A j, k \in DOMAIN batch :
                 j < k => /\ batch[j] # batch[k]
                          /\ rows[batch[j]].scheduled_for <= rows[batch[k]].scheduled_for
           /\ Len(batch) <= 50
           /\ Len(batch) = IF Cardinality(due) < 50 THEN Cardinality(due) ELSE 50
           /\ \A id \in due \ inBatch : \A k \in DOMAIN batch :
                 rows[batch[k]].scheduled_for <= rows[id].scheduled_for

\* the query has left out due rows of a table that holds them out of order,
\* together with rows that are sent and rows that are not yet due
C23_Witness ==
    /\ call.fn = "pendingNotifications"
    /\ Len(call.result) = 50
    /\ \E id \in NotificationIds :
          /\ notifications[id].status = "pending"
          /\ notifications[id].scheduled_for <= call.now
          /\ \A k \in DOMAIN call.result : call.result[k] # id
    /\ \E k \in 1..(Len(call.result) - 1) : call.result[k] > call.result[k + 1]

-----------------------------------------------------------------------------
(* Properties of the helper functions *)

\* minutes of the day of a time string and of a clock value
MinutesOf(t) == t[1] * 60 + t[2]
MinuteOfDay(now) == (now \div MinuteMs) % (24 * 60)

\* membership in the quiet-hours window, endpoints included
InQuietWindow(time, start, end) ==
    IF start > end THEN time >= start \/ time <= end
    ELSE start <= time /\ time <= end

\* C13: whenever the clock time is in the user's quiet-hours window (time >=
\* start or time <= end when start > end, start <= time <= end otherwise,
\* endpoints included), the quiet-hours test holds, so that the tick skips the
\* user before it creates a plan or a notification
C13_QuietWindowIsSkipped ==
    call.fn = "isInQuietHours" =>
        (InQuietWindow(MinuteOfDay(call.now), MinutesOf(call.startTime),
                       MinutesOf(call.endTime))
         => call.result)

\* C14: with quiet hours 22:00-08:00 the test holds at 23:30 and at 05:00 and
\* does not hold at 12:00
C14_WraparoundQuietHours ==
    (/\ call.fn = "isInQuietHours"
     /\ MinutesOf(call.startTime) = 22 * 60
     /\ MinutesOf(call.endTime) = 8 * 60)
    => /\ TimeOfDay(call.now) = <<23, 30>> => call.result
       /\ TimeOfDay(call.now) = <<5, 0>> => call.result
       /\ TimeOfDay(call.now) = <<12, 0>> => ~call.result

\* the test at 23:30 with quiet hours "22:00:00" to "08:00:00"
C14_Witness ==
    /\ call.fn = "isInQuietHours"
    /\ call.startTime = <<22, 0, 0>> /\ call.endTime = <<8, 0, 0>>
    /\ TimeOfDay(call.now) = <<23, 30>>
    /\ call.result

\* the event's weekday and time as findNextEvent reads them are not after now's
EarlierInWeek(event, now, tz) ==
    LET eventDay == GetDay(event.start_ts, tz)
        eventTime == GetHours(event.start_ts + CDT_SHIFT_HOURS * HourMs, tz) * 60
                     + GetMinutes(event.start_ts + CDT_SHIFT_HOURS * HourMs, tz)
        currentDay == GetDay(now, tz)
        currentTime == GetHours(now, tz) * 60 + GetMinutes(now, tz)
    IN eventDay < currentDay \/ (eventDay = currentDay /\ eventTime <= currentTime)

C16_EarliestOccurrenceIsReturned ==
    call.fn = "findNextEvent" =>
        IF Len(call.events) = 0 THEN call.result = None
        ELSE /\ call.result # None
             /\ \E k \in DOMAIN call.events :
                   /\ The(call.result).id = call.events[k].id
                   /\ The(call.result).start_ts
                        = NextOccurrence(call.events[k], call.now, call.tz)
             /\ \A k \in DOMAIN call.events :
                   The(call.result).start_ts
                     <= NextOccurrence(call.events[k], call.now, call.tz)

\* two events, the second of which comes first
C16_Witness ==
    /\ call.fn = "findNextEvent"
    /\ Len(call.events) = 2
    /\ The(call.result).id = call.events[2].id
    /\ The(call.result).start_ts
         < NextOccurrence(call.events[1], call.now, call.tz)

\* C17: the origin is the home point when the event is more than 24 hours
\* away and a home point exists; otherwise the current location when there is
\* one; otherwise the home point if set; otherwise none
C17_OriginSelection ==
    call.fn = "getTripOriginPoint" =>
        LET far == call.hoursUntilEvent # None /\ The(call.hoursUntilEvent) > 24 IN
        IF far /\ call.homePoint # None THEN call.result = call.homePoint
        ELSE IF call.currentLocation # None
        THEN /\ call.result # None
             /\ The(call.result).at = The(call.currentLocation)
        ELSE call.result = call.homePoint

\* 25 hours ahead with a home point and a current location: the home point
C17_Witness ==
    /\ call.fn = "getTripOriginPoint"
    /\ call.hoursUntilEvent = Some(25)
    /\ call.currentLocation # None
    /\ call.homePoint # None
    /\ call.result = call.homePoint

\* C27: when the stop nearest to the origin is the stop nearest to the
\* destination, the destination stop given to the planner after the
\* replacement differs from the origin stop
C27_ReplacedDestinationDiffersFromOrigin ==
    (/\ call.fn = "planTripToNextEvent"
     /\ call.stops # None
     /\ The(call.stops).originStop = The(call.stops).nearestDestinationStop)
    => The(call.stops).plannerDestination # The(call.stops).originStop

\* C28: planTripToNextEvent returns in every case, and a result without a
\* trip plan has success = false and a message that is not empty
C28_FailureIsAResultWithMessage ==
    call.fn = "planTripToNextEvent" =>
        /\ ~call.result.thrown
        /\ call.result.tripPlan = None =>
              /\ ~call.result.success
              /\ call.result.message # ""

\* the planner failed without an error text and the result carries the
\* default message
C28_Witness ==
    /\ call.fn = "planTripToNextEvent"
    /\ call.result.error = "Trip planning failed"
    /\ call.tripResult.error \in {None, Some("")}
    /\ call.result.message = "No trip options available"

\* C29: when a cycle's fetch for a followed route is over and the markers
\* listen to updates, every vehicle of that route in the vehicles map comes
\* from that cycle
C29_RouteVehiclesAreReplacedEachCycle ==
    [][\A f \in client.fetching, result \in VehicleResults :
          (/\ FetchVehiclesForRoute(f, result)
           /\ f.routeId \in client.followedRoutes
           /\ client.updateCallbacks)
          => \A v \in DOMAIN client'.vehicles :
                client'.vehicles[v].routeId = f.routeId
                    => client'.vehicles[v].cycle = f.cycle]_vars

\* C30: over successive runs of schedule-notify, one per minute, the
\* notifications table holds at most one departure reminder for a user and
\* an event
C30_OneReminderPerUserAndEvent ==
    \A a, b \in NotificationIds :
        (/\ notifications[a].type = "departure_reminder"
         /\ notifications[b].type = "departure_reminder"
         /\ notifications[a].user_id = notifications[b].user_id
         /\ notifications[a].event_id = notifications[b].event_id)
        => a = b

\* C31: with one run a minute, the user outside quiet hours and holding a
\* push token, the planner always giving the trip that departs 08:30 and the
\* lead time of 15 minutes (notifyAt 08:15, the event of 09:00 inside the
\* look-ahead window), a notification for the event is eventually created
C31_ReminderIsEventuallyCreated ==
    <>(\E n \in NotificationIds :
          /\ notifications[n].user_id = "u1"
          /\ notifications[n].event_id = 1)

\* start lies between now + 30 minutes and now + 60 minutes, both included
InLookAhead(start, now) ==
    /\ start >= now + 30 * MinuteMs
    /\ start <= now + 60 * MinuteMs

\* C32: every trip_plans row and every notifications row a run inserts is for
\* an event that starts between 30 and 60 minutes after the run's now
C32_RowsOnlyForEventsInLookAhead ==
    [][/\ \A id \in DOMAIN trip_plans' \ DOMAIN trip_plans :
            InLookAhead(EventById(trip_plans'[id].event_id).start_time,
                        sched[TheTick].now)
       /\ \A id \in DOMAIN notifications' \ DOMAIN notifications :
            InLookAhead(EventById(notifications'[id].event_id).start_time,
                        sched[TheTick].now)]_vars

\* a plan was made by the run whose now is exactly 30 minutes before the event
C32_Witness ==
    \E id \in PlanIds :
        EventById(trip_plans[id].event_id).start_time
            = trip_plans[id].created_at + 30 * MinuteMs

\* C33: a plan-trip request is not rate-limited when no request with its own
\* origin, destination and arrive-by value was answered before (its cache
\* entry, written together with the rate limiter's entry, is still empty)
C33_OtherArriveByDoesNotRateLimit ==
    [][\A r \in PlanRequests, up \in UpstreamAnswers :
          (/\ PlannerRequest(r, up)
           /\ r.arrive_by # None
           /\ cache[PlanCacheKey(r)] = None)
          => lastResp'.status # 429]_vars

\* C34: no notification is submitted to Expo at a time inside the quiet-hours
\* window of the user it is for
C34_NoPushInsideQuietHours ==
    [][\A r \in FanIds :
          \A answer \in ExpoAnswers(Cardinality(fan[r].tokens)) :
              SendExpo(r, answer) =>
                  LET us == UserSettings(notifications[fan[r].batch[fan[r].i]].user_id)
                  IN ~InQuietWindow(MinuteOfDay(clock),
                                    MinutesOf(us.quiet_hours_start),
                                    MinutesOf(us.quiet_hours_end))]_vars

\* C35: a notification whose messages Expo accepted in some run of
\* fanout-push is not submitted to Expo again by a later run
C35_AcceptedIsNotSubmittedAgain ==
    [][\A r \in FanIds :
          \A answer \in ExpoAnswers(Cardinality(fan[r].tokens)) :
              SendExpo(r, answer) =>
                  \A q \in FanIds : fan[r].batch[fan[r].i] \notin fan[q].accepted]_vars

\* no notification is pending with scheduled_for at or before now
NoDuePending ==
    \A n \in NotificationIds :
        notifications[n].scheduled_for <= clock
            => notifications[n].status \in {"sent", "failed"}

\* C36: with fanout-push invoked again and again and the status updates
\* going through, every notification that is pending and due is eventually
\* sent or failed, also when more than 50 are pending
C36_EveryDuePendingIsResolved == <>[]NoDuePending

\* a table of more than 50 rows was emptied of due pending rows, the rows
\* beyond the first batch by the second run
C36_Witness ==
    /\ Len(notifications) > FANOUT_BATCH_LIMIT
    /\ Len(fan[1].batch) = FANOUT_BATCH_LIMIT
    /\ fan[2].pc = "done" /\ fan[2].batch # <<>>
    /\ NoDuePending

\* C37: the notifications count a schedule-notify run reports is the number
\* of notifications rows the run inserted (the table being empty before the
\* one run)
C37_ReportedCountIsRowsCreated ==
    sched[TheTick].pc = "done" => sched[TheTick].notified = Len(notifications)

\* C38: in the result of every fanout-push run, processed is the number of
\* notifications of the run's batch and processed = sent + failed
C38_ProcessedIsHandledIsSentPlusFailed ==
    \A r \in FanIds :
        fan[r].pc = "done" =>
            /\ fan[r].processed = Len(fan[r].batch)
            /\ fan[r].processed = fan[r].sent + fan[r].failed

\* C39: setting the home point leaves the user's saved lead time, quiet
\* hours and timezone as they were
C39_SetHomePointKeepsPreferences ==
    call.fn = "setHomePoint" =>
        /\ call.after.notify_lead_minutes = call.before.notify_lead_minutes
        /\ call.after.quiet_hours_start = call.before.quiet_hours_start
        /\ call.after.quiet_hours_end = call.before.quiet_hours_end
        /\ call.after.timezone = call.before.timezone

\* C40: an update callback is delivered for a route only while the route is
\* followed and the tracker is tracking, also when the fetch began earlier
C40_NoCallbackAfterUnfollowOrStop ==
    [][\A f \in client.fetching, result \in VehicleResults :
          (/\ FetchVehiclesForRoute(f, result)
           /\ result.success
           /\ client.updateCallbacks)
          => /\ f.routeId \in client.followedRoutes
             /\ client.isTracking]_vars

====
